---- MODULE Spec2Model ----
(***************************************************************************)
(* Model of the plan executor of the planner SDK (executePlan and the      *)
(* helpers it calls: resolveArguments, resolveValue, getNestedValue,       *)
(* parsePath, extractDependencyStepIds).                                   *)
(*                                                                         *)
(* Representation.  A JavaScript string whose characters matter (a path,   *)
(* a template, an object key, a string value) is a sequence of one-        *)
(* character strings.  Step ids and tool names are only compared and       *)
(* interpolated as a whole, so they are atoms.  A JSON value is a record   *)
(* with a kind field.  An object is an ordered list of <<key, value>>      *)
(* pairs (Object.entries order).                                           *)
(***************************************************************************)
EXTENDS Integers, Sequences, FiniteSets, TLC

----------------------------------------------------------------------------
(* Bounds of the generated plans and catalogs.                             *)

MaxSteps == 3

MaxFaults == 1

----------------------------------------------------------------------------
(* JSON values.                                                            *)

Undefined == [kind |-> "undefined"]

Null == [kind |-> "null"]

Str(s) == [kind |-> "string", val |-> s]

Num(n) == [kind |-> "number", val |-> n]

NaN == [kind |-> "nan"]

Arr(items) == [kind |-> "array", items |-> items]

Obj(fields) == [kind |-> "object", fields |-> fields]

(* { $fromStep, $outputKey } *)
DependencyReference(fromStep, outputKey) ==
    [kind |-> "dep", fromStep |-> fromStep, outputKey |-> outputKey]

(* { $fromTemplateString, $values } *)
StringTemplateReference(tpl, values) ==
    [kind |-> "tmpl", fromTemplateString |-> tpl, values |-> values]

isDependencyReference(value) == value.kind = "dep"

isStringTemplateReference(value) == value.kind = "tmpl"

----------------------------------------------------------------------------
(* Character sequences.                                                    *)

Digits == {"0", "1", "2", "3", "4", "5", "6", "7", "8", "9"}

DigitVal(c) ==
    CASE c = "0" -> 0 [] c = "1" -> 1 [] c = "2" -> 2 [] c = "3" -> 3
      [] c = "4" -> 4 [] c = "5" -> 5 [] c = "6" -> 6 [] c = "7" -> 7
      [] c = "8" -> 8 [] c = "9" -> 9

DigitChar(d) == <<"0", "1", "2", "3", "4", "5", "6", "7", "8", "9">>[d + 1]

SeqToSet(q) == {q[k] : k \in 1..Len(q)}

RECURSIVE Concat(_)
Concat(ss) == IF ss = <<>> THEN <<>> ELSE Head(ss) \o Concat(Tail(ss))

(* s.startsWith(p, i - 1): p occurs in s at the 1-based position i *)
OccursAt(s, p, i) ==
    /\ i >= 1
    /\ i + Len(p) - 1 <= Len(s)
    /\ \A k \in 1..Len(p) : s[i + k - 1] = p[k]

(* s.indexOf(p) as a 1-based position, 0 when p does not occur *)
IndexOf(s, p) ==
    LET hits == {i \in 1..(Len(s) + 1) : OccursAt(s, p, i)}
    IN IF hits = {} THEN 0 ELSE CHOOSE i \in hits : \A j \in hits : i <= j

(* /^\d+$/.test(value) *)
isNumericString(value) ==
    /\ Len(value) >= 1
    /\ \A k \in 1..Len(value) : value[k] \in Digits

RECURSIVE DecimalValue(_)
DecimalValue(ds) ==
    IF ds = <<>> THEN 0
    ELSE 10 * DecimalValue(SubSeq(ds, 1, Len(ds) - 1)) + DigitVal(ds[Len(ds)])

RECURSIVE DecimalString(_)
DecimalString(n) ==
    IF n < 10 THEN <<DigitChar(n)>>
    ELSE DecimalString(n \div 10) \o <<DigitChar(n % 10)>>

(* Number(s) for the strings parseIndexMarker meets: the empty string is 0, *)
(* a run of digits is its decimal value, anything else over the alphabet   *)
(* used here is NaN.                                                       *)
ToNumber(s) ==
    IF s = <<>> THEN Num(0)
    ELSE IF isNumericString(s) THEN Num(DecimalValue(s)) ELSE NaN

----------------------------------------------------------------------------
(* Path utilities.                                                         *)

(* "\0IDX:" is kept as one element: the alphabet of the paths has no NUL,  *)
(* so the prefix only ever comes from createIndexMarker.                   *)
INDEX_MARKER_PREFIX == "\\0IDX:"

createIndexMarker(index) == <<INDEX_MARKER_PREFIX>> \o index

isIndexMarker(segment) == Len(segment) >= 1 /\ segment[1] = INDEX_MARKER_PREFIX

parseIndexMarker(segment) == ToNumber(Tail(segment))

(* length of the longest run of digits of s that starts at position i *)
RECURSIVE DigitRun(_, _)
DigitRun(s, i) ==
    IF i <= Len(s) /\ s[i] \in Digits THEN 1 + DigitRun(s, i + 1) ELSE 0

(* length of the longest run of characters other than q that starts at i *)
RECURSIVE NonQuoteRun(_, _, _)
NonQuoteRun(s, q, i) ==
    IF i <= Len(s) /\ s[i] # q THEN 1 + NonQuoteRun(s, q, i + 1) ELSE 0

(* path.replace(/\[(\d+)\]/g, (_, index) => `.${createIndexMarker(index)}`) *)
RECURSIVE ReplaceBracketIndex(_, _)
ReplaceBracketIndex(s, i) ==
    IF i > Len(s) THEN <<>>
    ELSE LET n == DigitRun(s, i + 1)
         IN IF /\ s[i] = "["
               /\ n >= 1
               /\ i + n + 1 <= Len(s)
               /\ s[i + n + 1] = "]"
            THEN <<".">> \o createIndexMarker(SubSeq(s, i + 1, i + n))
                     \o ReplaceBracketIndex(s, i + n + 2)
            ELSE <<s[i]>> \o ReplaceBracketIndex(s, i + 1)

(* s.replace(/\[q([^q]+)q\]/g, ".$1") for the quote character q *)
RECURSIVE ReplaceBracketQuote(_, _, _)
ReplaceBracketQuote(s, q, i) ==
    IF i > Len(s) THEN <<>>
    ELSE LET n == NonQuoteRun(s, q, i + 2)
         IN IF /\ s[i] = "["
               /\ i + 1 <= Len(s)
               /\ s[i + 1] = q
               /\ n >= 1
               /\ i + n + 3 <= Len(s)
               /\ s[i + n + 2] = q
               /\ s[i + n + 3] = "]"
            THEN <<".">> \o SubSeq(s, i + 2, i + n + 1)
                     \o ReplaceBracketQuote(s, q, i + n + 4)
            ELSE <<s[i]>> \o ReplaceBracketQuote(s, q, i + 1)

normalizeToSegments(path) ==
    IF path = <<>> THEN <<>>
    ELSE ReplaceBracketQuote(
             ReplaceBracketQuote(ReplaceBracketIndex(path, 1), "\"", 1),
             "'", 1)

(* s.split(".") *)
RECURSIVE SplitDot(_)
SplitDot(s) ==
    LET p == IndexOf(s, <<".">>)
    IN IF p = 0 THEN <<s>>
       ELSE <<SubSeq(s, 1, p - 1)>> \o SplitDot(SubSeq(s, p + 1, Len(s)))

(* a path is a sequence of Str (key) and Num / NaN (index) segments *)
parsePath(path) ==
    LET normalized == normalizeToSegments(path)
        segments == SelectSeq(SplitDot(normalized), LAMBDA seg : seg # <<>>)
    IN IF normalized = <<>> THEN <<>>
       ELSE [k \in 1..Len(segments) |->
                IF isIndexMarker(segments[k])
                THEN parseIndexMarker(segments[k])
                ELSE Str(segments[k])]

(* obj[key] for an own property of an object, undefined when absent *)
RECURSIVE GetField(_, _)
GetField(fields, key) ==
    IF fields = <<>> THEN Undefined
    ELSE IF Head(fields)[1] = key THEN Head(fields)[2]
    ELSE GetField(Tail(fields), key)

(* arr[n] *)
ArrayAt(items, n) == IF n + 1 <= Len(items) THEN items[n + 1] ELSE Undefined

(* one iteration of the loop of getNestedValue *)
NestedStep(current, part) ==
    IF current.kind \in {"null", "undefined"} THEN Undefined
    ELSE IF part.kind \in {"number", "nan"}
    THEN IF current.kind # "array" THEN Undefined
         ELSE IF part.kind = "nan" THEN Undefined
         ELSE ArrayAt(current.items, part.val)
    ELSE IF current.kind = "array"
    THEN IF isNumericString(part.val)
         THEN ArrayAt(current.items, DecimalValue(part.val))
         ELSE Undefined
    ELSE IF current.kind = "object" THEN GetField(current.fields, part.val)
    ELSE IF current.kind = "string" /\ isNumericString(part.val)
    THEN IF DecimalValue(part.val) + 1 <= Len(current.val)
         THEN Str(<<current.val[DecimalValue(part.val) + 1]>>)
         ELSE Undefined
    ELSE Undefined

RECURSIVE getNestedValue(_, _)
getNestedValue(obj, path) ==
    IF path = <<>> THEN obj
    ELSE IF obj.kind \in {"null", "undefined"} THEN Undefined
    ELSE getNestedValue(NestedStep(obj, Head(path)), Tail(path))

----------------------------------------------------------------------------
(* String conversion and String.prototype.replace.                         *)

Bool(b) == [kind |-> "boolean", val |-> b]

RECURSIVE JoinComma(_)
RECURSIVE JsString(_)

(* String(v) *)
JsString(v) ==
    CASE v.kind = "string" -> v.val
      [] v.kind = "number" -> DecimalString(v.val)
      [] v.kind = "nan" -> <<"N", "a", "N">>
      [] v.kind = "undefined" -> <<"u", "n", "d", "e", "f", "i", "n", "e", "d">>
      [] v.kind = "null" -> <<"n", "u", "l", "l">>
      [] v.kind = "boolean" ->
            IF v.val THEN <<"t", "r", "u", "e">> ELSE <<"f", "a", "l", "s", "e">>
      [] v.kind = "array" -> JoinComma(v.items)
      [] OTHER -> <<"[", "o", "b", "j", "e", "c", "t", " ",
                    "O", "b", "j", "e", "c", "t", "]">>

(* Array.prototype.join: null and undefined elements give the empty string *)
JoinComma(items) ==
    IF items = <<>> THEN <<>>
    ELSE LET one(v) == IF v.kind \in {"null", "undefined"} THEN <<>>
                       ELSE JsString(v)
         IN IF Len(items) = 1 THEN one(items[1])
            ELSE one(items[1]) \o <<",">> \o JoinComma(Tail(items))

(* GetSubstitution for a string pattern: $$, $&, $` and $' are special *)
RECURSIVE ExpandReplacement(_, _, _, _)
ExpandReplacement(r, matched, before, after) ==
    IF r = <<>> THEN <<>>
    ELSE IF r[1] = "$" /\ Len(r) >= 2 /\ r[2] \in {"$", "&", "`", "'"}
    THEN (CASE r[2] = "$" -> <<"$">>
            [] r[2] = "&" -> matched
            [] r[2] = "`" -> before
            [] r[2] = "'" -> after)
         \o ExpandReplacement(SubSeq(r, 3, Len(r)), matched, before, after)
    ELSE <<r[1]>> \o ExpandReplacement(Tail(r), matched, before, after)

(* s.replace(pattern, replacement) with a string pattern: first occurrence *)
StringReplace(s, pattern, replacement) ==
    LET p == IndexOf(s, pattern)
        before == SubSeq(s, 1, p - 1)
        after == SubSeq(s, p + Len(pattern), Len(s))
    IN IF p = 0 THEN s
       ELSE before \o ExpandReplacement(replacement, pattern, before, after)
                \o after

----------------------------------------------------------------------------
(* Dependency extraction.                                                  *)

(* traverseReferences without the onTemplate callback *)
RECURSIVE traverseReferences_NoTemplates(_)
traverseReferences_NoTemplates(value) ==
    IF isDependencyReference(value) THEN <<value.fromStep>>
    ELSE IF isStringTemplateReference(value) THEN <<>>
    ELSE IF value.kind = "array"
    THEN Concat([k \in 1..Len(value.items) |->
                    traverseReferences_NoTemplates(value.items[k])])
    ELSE IF value.kind = "object"
    THEN Concat([k \in 1..Len(value.fields) |->
                    traverseReferences_NoTemplates(value.fields[k][2])])
    ELSE <<>>

RECURSIVE traverseReferences(_)
RECURSIVE TraverseAll(_)

(* The $fromStep of every reference that the callbacks of                  *)
(* extractDependencyStepIds push, in visiting order.                       *)
traverseReferences(value) ==
    IF isDependencyReference(value) THEN <<value.fromStep>>
    ELSE IF isStringTemplateReference(value)
    THEN [k \in 1..Len(value.values) |-> value.values[k].fromStep]
    ELSE IF value.kind = "array" THEN TraverseAll(value.items)
    ELSE IF value.kind = "object"
    THEN TraverseAll([k \in 1..Len(value.fields) |-> value.fields[k][2]])
    ELSE <<>>

TraverseAll(items) ==
    IF items = <<>> THEN <<>>
    ELSE traverseReferences(Head(items)) \o TraverseAll(Tail(items))

(* [...new Set(deps)]: first occurrences, in order *)
RECURSIVE Dedupe(_)
Dedupe(s) ==
    IF s = <<>> THEN <<>>
    ELSE LET init == SubSeq(s, 1, Len(s) - 1)
             last == s[Len(s)]
         IN IF \E k \in 1..Len(init) : init[k] = last
            THEN Dedupe(init)
            ELSE Dedupe(init) \o <<last>>

extractDependencyStepIds(args) == Dedupe(traverseReferences(args))

----------------------------------------------------------------------------
(* Argument resolution.  A thrown Error is the value Thrown(message).      *)

Thrown(message) == [kind |-> "throw", message |-> message]

(* Map.get *)
MapGet(map, key) == IF key \in DOMAIN map THEN map[key] ELSE Undefined

(* the first thrown error among already resolved children, if any *)
FirstThrown(items) ==
    LET bad == {k \in 1..Len(items) : items[k].kind = "throw"}
    IN IF bad = {} THEN Undefined
       ELSE items[CHOOSE k \in bad : \A j \in bad : k <= j]

(* the loop over value.$values.entries() of resolveValue, from entry i on *)
RECURSIVE ResolveTemplate(_, _, _, _)
ResolveTemplate(result, values, i, outputsByStepId) ==
    IF i > Len(values) THEN result
    ELSE LET ref == values[i]
             stepOutput == MapGet(outputsByStepId, ref.fromStep)
             resolvedValue == getNestedValue(stepOutput, parsePath(ref.outputKey))
         IN ResolveTemplate(
                StringReplace(result,
                              <<"{">> \o DecimalString(i - 1) \o <<"}">>,
                              JsString(resolvedValue)),
                values, i + 1, outputsByStepId)

RECURSIVE resolveValue(_, _)
resolveValue(value, outputsByStepId) ==
    IF value.kind = "array"
    THEN LET items == [k \in 1..Len(value.items) |->
                          resolveValue(value.items[k], outputsByStepId)]
         IN IF FirstThrown(items) # Undefined THEN FirstThrown(items)
            ELSE Arr(items)
    ELSE IF isDependencyReference(value)
    THEN LET stepOutput == MapGet(outputsByStepId, value.fromStep)
         IN IF stepOutput = Undefined
            THEN Thrown(<<"Step ", value.fromStep, " output not found">>)
            ELSE getNestedValue(stepOutput, parsePath(value.outputKey))
    ELSE IF isStringTemplateReference(value)
    THEN Str(ResolveTemplate(value.fromTemplateString, value.values, 1,
                             outputsByStepId))
    ELSE IF value.kind = "object"
    THEN LET items == [k \in 1..Len(value.fields) |->
                          resolveValue(value.fields[k][2], outputsByStepId)]
         IN IF FirstThrown(items) # Undefined THEN FirstThrown(items)
            ELSE Obj([k \in 1..Len(value.fields) |->
                         <<value.fields[k][1], items[k]>>])
    ELSE value

(* args is the object step.arguments; the result is the resolved object,   *)
(* or Thrown(message)                                                      *)
resolveArguments(args, outputsByStepId) ==
    LET items == [k \in 1..Len(args.fields) |->
                     resolveValue(args.fields[k][2], outputsByStepId)]
    IN IF FirstThrown(items) # Undefined THEN FirstThrown(items)
       ELSE Obj([k \in 1..Len(args.fields) |-> <<args.fields[k][1], items[k]>>])

----------------------------------------------------------------------------
(* Plans, catalogs and handlers.                                           *)

PlanStepStatus ==
    [Pending |-> "pending", Executing |-> "executing", Done |-> "done",
     Failed |-> "failed", Skipped |-> "skipped", Timeout |-> "timeout"]

PlanStep(stepId, toolName, arguments) ==
    [stepId |-> stepId, status |-> PlanStepStatus.Pending,
     toolName |-> toolName, arguments |-> arguments]

(* What a handler does when called.  "ok" resolves with a value computed   *)
(* from its arguments, "void" resolves with undefined, "throw" rejects,    *)
(* "syncthrow" throws before returning a promise.                          *)
HandlerKinds == {"ok", "void", "throw", "syncthrow"}

Tool(name, handler) == [name |-> name, handler |-> handler]

(* the value an "ok" handler of the tool resolves with: { r: name followed *)
(* by the stringified arguments, a: the arguments received }               *)
HandlerValue(toolName, resolvedArgs) ==
    Obj(<< <<<<"r">>,
             Str(<<toolName>> \o
                 Concat([k \in 1..Len(resolvedArgs.fields) |->
                            JsString(resolvedArgs.fields[k][2])]))>>,
           <<<<"a">>, resolvedArgs>> >>)

(* the message of the Error a failing handler of the tool throws *)
HandlerError(toolName) == <<"handler failed: ", toolName>>

StepIds == <<"s0", "s1", "s2", "s3", "s4", "s5">>

ToolNames == <<"A", "B", "C", "D", "E", "F">>

(* a step id that names no step of any plan *)
GhostId == "zz"

StaticArgs == Obj(<< <<<<"v">>, Str(<<"x">>)>> >>)

RefArgs(fromStep) ==
    Obj(<< <<<<"i">>, DependencyReference(fromStep, <<"r">>)>> >>)

(* Generated plans: n steps, each with a static argument or one reference  *)
(* to a step of the plan (itself included) or to a step id not in it.      *)
GeneratedPlans ==
    UNION {
      LET ids == {StepIds[k] : k \in 1..n}
          ArgChoices == {StaticArgs} \cup {RefArgs(d) : d \in ids \cup {GhostId}}
      IN {[k \in 1..n |-> PlanStep(StepIds[k], ToolNames[k], f[k])] :
              f \in [1..n -> ArgChoices]}
      : n \in 1..MaxSteps }

(* The plan of the README (getChainId, searchCoin, getCoinPlatformInfo,    *)
(* getTokenHolders, getWalletPnL): 2 <- 1, 3 <- {0, 2}, 4 <- 3.            *)
ReadmePlan ==
    << PlanStep("s0", "A", Obj(<< <<<<"b">>, Str(<<"B">>)>> >>)),
       PlanStep("s1", "B", Obj(<< <<<<"q">>, Str(<<"U">>)>>,
                                  <<<<"l">>, Num(1)>> >>)),
       PlanStep("s2", "C",
                Obj(<< <<<<"c">>, DependencyReference("s1", <<"a", ".", "l">>)>>,
                       <<<<"p">>, Str(<<"b">>)>> >>)),
       PlanStep("s3", "D",
                Obj(<< <<<<"c">>, DependencyReference("s0", <<"r">>)>>,
                       <<<<"t">>, DependencyReference("s2", <<"a", "[", "'", "c", "'", "]">>)>>,
                       <<<<"l">>, Num(1)>> >>)),
       PlanStep("s4", "E",
                Obj(<< <<<<"w">>, DependencyReference("s3", <<"r", ".", "0">>)>> >>)) >>

(* A plan with template references, nesting and a tool used by two steps.  *)
TemplatePlan ==
    << PlanStep("s0", "A", Obj(<< <<<<"n">>, Arr(<<Str(<<"k">>), Null>>)>> >>)),
       PlanStep("s1", "B",
                Obj(<< <<<<"q">>,
                         StringTemplateReference(
                             <<"N", "{", "0", "}", "(", "{", "1", "}", ")">>,
                             << DependencyReference("s0", <<"r">>),
                                DependencyReference("s0", <<"a", ".", "n", "[", "0", "]">>) >>)>> >>)),
       PlanStep("s2", "A",
                Obj(<< <<<<"o">>,
                         Obj(<< <<<<"l">>,
                                  Arr(<< DependencyReference("s1", <<"a", ".", "q">>),
                                         Str(<<"y">>) >>)>> >>)>> >>)) >>

(* One step read by two others, once through a reference and once through *)
(* a template, and a step that joins the two.                              *)
FanOutPlan ==
    << PlanStep("s0", "A", StaticArgs),
       PlanStep("s1", "B", RefArgs("s0")),
       PlanStep("s2", "C",
                Obj(<< <<<<"q">>,
                         StringTemplateReference(
                             <<"<", "{", "0", "}", ">">>,
                             << DependencyReference("s0", <<"r">>) >>)>> >>)),
       PlanStep("s3", "D",
                Obj(<< <<<<"x">>, DependencyReference("s1", <<"r">>)>>,
                       <<<<"y">>, Arr(<< DependencyReference("s2", <<"a", "[", "\"", "q", "\"", "]">>) >>)>> >>)) >>

Plans == GeneratedPlans \cup {ReadmePlan, TemplatePlan, FanOutPlan}

ToolNamesOf(plan) == {plan[k].toolName : k \in 1..Len(plan)}

(* Catalogs for a plan: every tool of the plan is either absent from the   *)
(* catalog or present with some handler; at most MaxFaults of them are     *)
(* absent or have a handler other than "ok".                               *)
Catalogs(plan) ==
    LET names == ToolNamesOf(plan)
        choices == [names -> HandlerKinds \cup {"absent"}]
        faults(c) == Cardinality({t \in names : c[t] # "ok"})
    IN { [t \in {u \in names : c[u] # "absent"} |-> Tool(t, c[t])] :
             c \in {d \in choices : faults(d) <= MaxFaults} }

----------------------------------------------------------------------------
(* executePlan.                                                            *)
(*                                                                         *)
(* JavaScript runs each synchronous stretch to completion, so the only     *)
(* points where handler completions interleave are the awaits: the await   *)
(* of the handler inside tryExecuteStep and the await of Promise.all.      *)
(* pc is the position of executePlan:                                      *)
(*   "ready" about to call getReadySteps (line 701 or 704)                 *)
(*   "map"   inside readySteps.map(tryExecuteStep), launched calls made    *)
(*   "call"  inside the handler call of the tryExecuteStep that map is     *)
(*           making, when that call throws instead of returning a promise  *)
(*   "await" suspended in await Promise.all(...)                           *)
(*   "reap"  the loop has exited, before the for loop of line 707          *)
(*   "done"  returned                                                      *)

VARIABLES
    steps,            \* the steps argument
    tools,            \* options.tools, by name
    statusByStepId,
    outputsByStepId,
    results,
    readySteps,       \* the current wave
    launched,         \* how many entries of readySteps map has called
    pc,
    resolvedArgs,     \* resolvedArgs of each tryExecuteStep awaiting its handler
    handlerCalls,     \* history: number of handler invocations per step id
    waveOf,           \* history: the wave in which a step id was dispatched
    wave,             \* history: number of waves started
    pushed,           \* history: the step ids in the order of results.push
    arg,              \* the arguments of a library function called on its own
    ret               \* what that call returned, NotCalled before it

vars == <<steps, tools, statusByStepId, outputsByStepId, results, readySteps,
          launched, pc, resolvedArgs, handlerCalls, waveOf, wave, pushed,
          arg, ret>>

NotCalled == [kind |-> "notcalled"]

Ids == {steps[k].stepId : k \in 1..Len(steps)}

StepOf(id) == steps[CHOOSE k \in 1..Len(steps) : steps[k].stepId = id]

(* new Map(options.tools.map((t) => [t.name, t])) *)
toolsByName == tools

(* results.push(r) *)
Push(r) == Append(results, r)

StepResult(step, arguments, output) ==
    [stepId |-> step.stepId, toolName |-> step.toolName,
     arguments |-> arguments, output |-> output]

StepResultError(step, arguments, error) ==
    [stepId |-> step.stepId, toolName |-> step.toolName,
     arguments |-> arguments, output |-> Null, error |-> error]

ToolNotFound(toolName) == <<"Tool \"", toolName, "\" not found">>

FailedToResolve(message) == <<"Failed to resolve arguments: ">> \o message

SkippedDependencies == <<"Skipped: dependencies not satisfied">>

Init ==
    /\ steps \in Plans
    /\ tools \in Catalogs(steps)
    /\ statusByStepId = [id \in Ids |-> PlanStepStatus.Pending]
    /\ outputsByStepId = <<>>
    /\ results = <<>>
    /\ readySteps = <<>>
    /\ launched = 0
    /\ pc = "ready"
    /\ resolvedArgs = <<>>
    /\ handlerCalls = [id \in Ids |-> 0]
    /\ waveOf = [id \in Ids |-> 0]
    /\ wave = 0
    /\ pushed = <<>>
    /\ arg = NotCalled
    /\ ret = NotCalled

(* IsReady without the test of the dependencies *)
IsReady_IgnoreDeps(step, status) ==
    MapGet(status, step.stepId) = PlanStepStatus.Pending

(* IsReady taking a dependency that failed for a satisfied one *)
IsReady_SettledDeps(step, status) ==
    /\ MapGet(status, step.stepId) = PlanStepStatus.Pending
    /\ LET deps == extractDependencyStepIds(step.arguments)
       IN \A k \in 1..Len(deps) :
              /\ deps[k] \in DOMAIN status
              /\ status[deps[k]] \in {PlanStepStatus.Done, PlanStepStatus.Failed}

(* is the step ready under the given status map *)
IsReady(step, status) ==
    /\ MapGet(status, step.stepId) = PlanStepStatus.Pending
    /\ LET deps == extractDependencyStepIds(step.arguments)
       IN \A k \in 1..Len(deps) :
              /\ deps[k] \in DOMAIN status
              /\ status[deps[k]] = PlanStepStatus.Done

getReadySteps == SelectSeq(steps, LAMBDA step : IsReady(step, statusByStepId))

(* ComputeReady not waiting for every promise of the wave to settle *)
ComputeReady_Race ==
    /\ pc \in {"ready", "await"}
    /\ readySteps' = getReadySteps
    /\ launched' = 0
    /\ IF Len(readySteps') > 0
       THEN /\ pc' = "map"
            /\ wave' = wave + 1
       ELSE /\ pc' = IF DOMAIN resolvedArgs = {} THEN "reap" ELSE "await"
            /\ wave' = wave
    /\ UNCHANGED <<arg, ret, steps, tools, statusByStepId, outputsByStepId, results,
                   resolvedArgs, handlerCalls, waveOf, pushed>>

(* lines 701-702 and 704: recompute the ready set, enter or leave the loop *)
ComputeReady ==
    /\ \/ pc = "ready"
       \/ pc = "await" /\ DOMAIN resolvedArgs = {}
    /\ readySteps' = getReadySteps
    /\ launched' = 0
    /\ IF Len(readySteps') > 0
       THEN /\ pc' = "map"
            /\ wave' = wave + 1
       ELSE /\ pc' = "reap"
            /\ wave' = wave
    /\ UNCHANGED <<arg, ret, steps, tools, statusByStepId, outputsByStepId, results,
                   resolvedArgs, handlerCalls, waveOf, pushed>>

(* the next call that map makes, and the position of executePlan after it *)
NextStep == readySteps[launched + 1]

Advance ==
    /\ launched' = launched + 1
    /\ pc' = IF launched + 1 = Len(readySteps) THEN "await" ELSE "map"
    /\ waveOf' = [waveOf EXCEPT ![NextStep.stepId] = wave]
    /\ UNCHANGED <<arg, ret, steps, tools, readySteps, wave>>

(* TryExecuteStepNoTool reporting the unresolved arguments *)
TryExecuteStepNoTool_KeepArgs ==
    /\ pc = "map"
    /\ NextStep.toolName \notin DOMAIN toolsByName
    /\ statusByStepId' =
           [statusByStepId EXCEPT ![NextStep.stepId] = PlanStepStatus.Skipped]
    /\ results' = Push(StepResultError(NextStep, NextStep.arguments,
                                       ToolNotFound(NextStep.toolName)))
    /\ pushed' = Append(pushed, NextStep.stepId)
    /\ Advance
    /\ UNCHANGED <<outputsByStepId, resolvedArgs, handlerCalls>>

(* tryExecuteStep, lines 627-641: the tool is not in the catalog *)
TryExecuteStepNoTool ==
    /\ pc = "map"
    /\ NextStep.toolName \notin DOMAIN toolsByName
    /\ statusByStepId' =
           [statusByStepId EXCEPT ![NextStep.stepId] = PlanStepStatus.Skipped]
    /\ results' = Push(StepResultError(NextStep, Obj(<<>>),
                                       ToolNotFound(NextStep.toolName)))
    /\ pushed' = Append(pushed, NextStep.stepId)
    /\ Advance
    /\ UNCHANGED <<outputsByStepId, resolvedArgs, handlerCalls>>

(* TryExecuteStepResolveError leaving the step pending *)
TryExecuteStepResolveError_LeavePending ==
    /\ pc = "map"
    /\ NextStep.toolName \in DOMAIN toolsByName
    /\ LET resolved == resolveArguments(NextStep.arguments, outputsByStepId)
       IN /\ resolved.kind = "throw"
          /\ results' = Push(StepResultError(NextStep, Obj(<<>>),
                                             FailedToResolve(resolved.message)))
    /\ pushed' = Append(pushed, NextStep.stepId)
    /\ Advance
    /\ UNCHANGED <<statusByStepId, outputsByStepId, resolvedArgs, handlerCalls>>

(* tryExecuteStep, lines 643-659: resolveArguments throws *)
TryExecuteStepResolveError ==
    /\ pc = "map"
    /\ NextStep.toolName \in DOMAIN toolsByName
    /\ LET resolved == resolveArguments(NextStep.arguments, outputsByStepId)
       IN /\ resolved.kind = "throw"
          /\ statusByStepId' =
                 [statusByStepId EXCEPT ![NextStep.stepId] = PlanStepStatus.Skipped]
          /\ results' = Push(StepResultError(NextStep, Obj(<<>>),
                                             FailedToResolve(resolved.message)))
    /\ pushed' = Append(pushed, NextStep.stepId)
    /\ Advance
    /\ UNCHANGED <<outputsByStepId, resolvedArgs, handlerCalls>>

(* tryExecuteStep, lines 643-664: the arguments resolve, the status        *)
(* becomes executing and the handler is called.  A handler that returns a  *)
(* promise suspends tryExecuteStep at the await and map goes on; one that  *)
(* throws during the call leaves the catch block of line 675 to run next.  *)
TryExecuteStepInvoke ==
    /\ pc = "map"
    /\ NextStep.toolName \in DOMAIN toolsByName
    /\ LET resolved == resolveArguments(NextStep.arguments, outputsByStepId)
       IN /\ resolved.kind # "throw"
          /\ resolvedArgs' = (NextStep.stepId :> resolved) @@ resolvedArgs
    /\ statusByStepId' =
           [statusByStepId EXCEPT ![NextStep.stepId] = PlanStepStatus.Executing]
    /\ handlerCalls' = [handlerCalls EXCEPT ![NextStep.stepId] = @ + 1]
    /\ IF toolsByName[NextStep.toolName].handler = "syncthrow"
       THEN /\ pc' = "call"
            /\ waveOf' = [waveOf EXCEPT ![NextStep.stepId] = wave]
            /\ UNCHANGED <<arg, ret, steps, tools, readySteps, wave, launched>>
       ELSE Advance
    /\ UNCHANGED <<outputsByStepId, results, pushed>>

(* removes a key of a map *)
Without(map, key) == [k \in DOMAIN map \ {key} |-> map[k]]

(* tryExecuteStep, lines 675-685, entered from the handler call itself:    *)
(* the catch block runs before tryExecuteStep returns to map               *)
HandlerThrows ==
    /\ pc = "call"
    /\ statusByStepId' =
           [statusByStepId EXCEPT ![NextStep.stepId] = PlanStepStatus.Failed]
    /\ results' = Push(StepResultError(NextStep, resolvedArgs[NextStep.stepId],
                                       HandlerError(NextStep.toolName)))
    /\ pushed' = Append(pushed, NextStep.stepId)
    /\ resolvedArgs' = Without(resolvedArgs, NextStep.stepId)
    /\ Advance
    /\ UNCHANGED <<outputsByStepId, handlerCalls>>

(* the steps whose handler promise may settle now: microtasks only run     *)
(* once the synchronous map has returned                                   *)
CanSettle(id) == pc = "await" /\ id \in DOMAIN resolvedArgs

(* tryExecuteStep, lines 664-674: the handler's promise fulfils *)
HandlerFulfilled(id) ==
    /\ CanSettle(id)
    /\ LET step == StepOf(id)
           kind == toolsByName[step.toolName].handler
           output == IF kind = "void" THEN Undefined
                     ELSE HandlerValue(step.toolName, resolvedArgs[id])
       IN /\ kind \in {"ok", "void"}
          /\ outputsByStepId' = (id :> output) @@ outputsByStepId
          /\ statusByStepId' = [statusByStepId EXCEPT ![id] = PlanStepStatus.Done]
          /\ results' = Push(StepResult(step, resolvedArgs[id], output))
    /\ pushed' = Append(pushed, id)
    /\ resolvedArgs' = Without(resolvedArgs, id)
    /\ UNCHANGED <<arg, ret, steps, tools, readySteps, launched, pc, handlerCalls,
                   waveOf, wave>>

(* tryExecuteStep, lines 675-685: the handler's promise rejects *)
HandlerRejected(id) ==
    /\ CanSettle(id)
    /\ LET step == StepOf(id)
       IN /\ toolsByName[step.toolName].handler = "throw"
          /\ statusByStepId' = [statusByStepId EXCEPT ![id] = PlanStepStatus.Failed]
          /\ results' = Push(StepResultError(step, resolvedArgs[id],
                                             HandlerError(step.toolName)))
    /\ pushed' = Append(pushed, id)
    /\ resolvedArgs' = Without(resolvedArgs, id)
    /\ UNCHANGED <<arg, ret, steps, tools, outputsByStepId, readySteps, launched, pc,
                   handlerCalls, waveOf, wave>>

(* stepOrder with every lookup missing *)
stepOrder_Zero(id) == 0

(* new Map(steps.map((s, i) => [s.stepId, i])).get(id) ?? 0 *)
stepOrder(id) ==
    LET at == {k \in 1..Len(steps) : steps[k].stepId = id}
    IN IF at = {} THEN 0 ELSE (CHOOSE k \in at : \A j \in at : j <= k) - 1

(* no sort *)
SortResults_None(rs) == rs

(* Array.prototype.sort with the comparator of lines 721-723 (stable) *)
RECURSIVE SortResults(_)
SortResults(rs) ==
    IF rs = <<>> THEN <<>>
    ELSE LET sorted == SortResults(SubSeq(rs, 1, Len(rs) - 1))
             r == rs[Len(rs)]
             n == Cardinality({k \in 1..Len(sorted) :
                                  stepOrder(sorted[k].stepId) <= stepOrder(r.stepId)})
         IN SubSeq(sorted, 1, n) \o <<r>> \o SubSeq(sorted, n + 1, Len(sorted))

(* ReapFrom pushing a result for every step that is not done *)
RECURSIVE ReapFrom_NotDone(_, _)
ReapFrom_NotDone(k, status) ==
    IF k > Len(steps) THEN <<>>
    ELSE IF MapGet(status, steps[k].stepId) # PlanStepStatus.Done
    THEN <<StepResultError(steps[k], steps[k].arguments, SkippedDependencies)>>
             \o ReapFrom_NotDone(k + 1, status)
    ELSE ReapFrom_NotDone(k + 1, status)

(* the results pushed by the loop of lines 707-718 over steps from k on *)
RECURSIVE ReapFrom(_, _)
ReapFrom(k, status) ==
    IF k > Len(steps) THEN <<>>
    ELSE IF MapGet(status, steps[k].stepId) = PlanStepStatus.Pending
    THEN <<StepResultError(steps[k], steps[k].arguments, SkippedDependencies)>>
             \o ReapFrom(k + 1, [status EXCEPT ![steps[k].stepId] =
                                                  PlanStepStatus.Skipped])
    ELSE ReapFrom(k + 1, status)

(* Finish skipping every step that is not done *)
Finish_SkipNotDone ==
    /\ pc = "reap"
    /\ statusByStepId' =
           [id \in DOMAIN statusByStepId |->
               IF statusByStepId[id] # PlanStepStatus.Done
               THEN PlanStepStatus.Skipped ELSE statusByStepId[id]]
    /\ LET reaped == ReapFrom(1, statusByStepId)
       IN /\ results' = SortResults(results \o reaped)
          /\ pushed' = pushed \o [k \in 1..Len(reaped) |-> reaped[k].stepId]
    /\ pc' = "done"
    /\ UNCHANGED <<arg, ret, steps, tools, outputsByStepId, readySteps, launched,
                   resolvedArgs, handlerCalls, waveOf, wave>>

(* Finish without the loop over the steps still pending *)
Finish_NoReap ==
    /\ pc = "reap"
    /\ results' = SortResults(results)
    /\ pc' = "done"
    /\ UNCHANGED <<arg, ret, steps, tools, statusByStepId, outputsByStepId, readySteps,
                   launched, resolvedArgs, handlerCalls, waveOf, wave, pushed>>

(* Finish writing the final status of each step into the step itself *)
Finish_MarkSteps ==
    /\ pc = "reap"
    /\ statusByStepId' =
           [id \in DOMAIN statusByStepId |->
               IF statusByStepId[id] = PlanStepStatus.Pending
               THEN PlanStepStatus.Skipped ELSE statusByStepId[id]]
    /\ steps' = [k \in 1..Len(steps) |->
                    [steps[k] EXCEPT !.status = statusByStepId'[steps[k].stepId]]]
    /\ LET reaped == ReapFrom(1, statusByStepId)
       IN /\ results' = SortResults(results \o reaped)
          /\ pushed' = pushed \o [k \in 1..Len(reaped) |-> reaped[k].stepId]
    /\ pc' = "done"
    /\ UNCHANGED <<arg, ret, tools, outputsByStepId, readySteps, launched,
                   resolvedArgs, handlerCalls, waveOf, wave>>

(* lines 707-725: skip what is still pending, sort, return *)
Finish ==
    /\ pc = "reap"
    /\ statusByStepId' =
           [id \in DOMAIN statusByStepId |->
               IF statusByStepId[id] = PlanStepStatus.Pending
               THEN PlanStepStatus.Skipped ELSE statusByStepId[id]]
    /\ LET reaped == ReapFrom(1, statusByStepId)
       IN /\ results' = SortResults(results \o reaped)
          /\ pushed' = pushed \o [k \in 1..Len(reaped) |-> reaped[k].stepId]
    /\ pc' = "done"
    /\ UNCHANGED <<arg, ret, steps, tools, outputsByStepId, readySteps, launched,
                   resolvedArgs, handlerCalls, waveOf, wave>>

Next ==
    \/ ComputeReady
    \/ TryExecuteStepNoTool
    \/ TryExecuteStepResolveError
    \/ TryExecuteStepInvoke
    \/ HandlerThrows
    \/ \E id \in Ids : HandlerFulfilled(id)
    \/ \E id \in Ids : HandlerRejected(id)
    \/ Finish

Spec == Init /\ [][Next]_vars

TypeOK == pc \in {"ready", "map", "call", "await", "reap", "done"}

----------------------------------------------------------------------------
(* Vocabulary of the properties.                                           *)

(* the step ids a step's arguments refer to *)
Deps(id) == SeqToSet(extractDependencyStepIds(StepOf(id).arguments))

RECURSIVE AncestorsWithin(_, _)
AncestorsWithin(found, n) ==
    IF n = 0 THEN found
    ELSE AncestorsWithin(
             found \cup UNION {Deps(a) : a \in found \cap Ids}, n - 1)

(* the step ids a step depends on, directly or through other steps *)
Ancestors(id) == AncestorsWithin(Deps(id), Len(steps))

HasTool(id) == StepOf(id).toolName \in DOMAIN tools

HandlerOf(id) == tools[StepOf(id).toolName].handler

(* the results that carry the step id *)
ResultsOf(id) == {k \in 1..Len(results) : results[k].stepId = id}

HasResult(id, r) == \E k \in ResultsOf(id) : results[k] = r

Dispatched(id) == waveOf[id] > 0

(* A step nothing can stop from running: its tool is in the catalog and    *)
(* everything it depends on is a step of the plan, outside any cycle, with *)
(* a tool whose handler resolves with a value.                             *)
Unhindered(id) ==
    /\ HasTool(id)
    /\ id \notin Ancestors(id)
    /\ \A a \in Ancestors(id) :
          /\ a \in Ids
          /\ a \notin Ancestors(a)
          /\ HasTool(a)
          /\ HandlerOf(a) = "ok"

----------------------------------------------------------------------------
(* C1: a handler is invoked only when every step id extracted from the     *)
(* step's arguments has status done, so that in every state a step that    *)
(* is executing, done or failed has all its dependencies done.             *)
C1_InvokedOnlyWhenDepsDone ==
    /\ [][\A id \in Ids :
            handlerCalls'[id] > handlerCalls[id] =>
                \A d \in Deps(id) :
                    /\ d \in DOMAIN statusByStepId
                    /\ statusByStepId[d] = PlanStepStatus.Done]_vars
    /\ [](\A id \in Ids :
            handlerCalls[id] > 0 =>
                \A d \in Deps(id) :
                    /\ d \in DOMAIN statusByStepId
                    /\ statusByStepId[d] = PlanStepStatus.Done)

(* a step with a dependency has run to done *)
C1_Witness ==
    \E id \in Ids :
        /\ Deps(id) # {}
        /\ handlerCalls[id] = 1
        /\ statusByStepId[id] = PlanStepStatus.Done

(* when executePlan has returned, every unhindered step has run *)
UnhinderedStepsRan ==
    pc = "done" =>
        \A u \in Ids :
            Unhindered(u) =>
                /\ handlerCalls[u] = 1
                /\ statusByStepId[u] =
                       (IF HandlerOf(u) \in {"ok", "void"}
                        THEN PlanStepStatus.Done ELSE PlanStepStatus.Failed)

----------------------------------------------------------------------------
(* C2: a step whose handler throws ends failed, with output null and the   *)
(* thrown message as error; no step that depends on it, directly or        *)
(* through other steps, is ever dispatched, and each ends skipped with     *)
(* output null, its unresolved arguments and the error "Skipped:           *)
(* dependencies not satisfied"; the steps that do not depend on it run.    *)
C2_FailurePoisonsDependents ==
    /\ \A f \in Ids :
          (/\ handlerCalls[f] > 0
           /\ HandlerOf(f) \in {"throw", "syncthrow"}
           /\ statusByStepId[f] # PlanStepStatus.Executing)
          =>
          /\ statusByStepId[f] = PlanStepStatus.Failed
          /\ \A k \in ResultsOf(f) :
                /\ results[k].output = Null
                /\ "error" \in DOMAIN results[k]
                /\ results[k].error = HandlerError(StepOf(f).toolName)
          /\ Cardinality(ResultsOf(f)) = 1
          /\ \A t \in Ids :
                f \in Ancestors(t) =>
                    /\ handlerCalls[t] = 0
                    /\ ~Dispatched(t)
                    /\ pc = "done" =>
                          /\ statusByStepId[t] = PlanStepStatus.Skipped
                          /\ HasResult(t, StepResultError(StepOf(t),
                                                          StepOf(t).arguments,
                                                          SkippedDependencies))
    /\ UnhinderedStepsRan

(* a failed step, a step skipped two references away from it, and a step   *)
(* that ran to done *)
C2_Witness ==
    /\ pc = "done"
    /\ \E f, t, u \in Ids :
          /\ statusByStepId[f] = PlanStepStatus.Failed
          /\ f \in Ancestors(t)
          /\ f \notin Deps(t)
          /\ statusByStepId[t] = PlanStepStatus.Skipped
          /\ f \notin Ancestors(u)
          /\ statusByStepId[u] = PlanStepStatus.Done

----------------------------------------------------------------------------
(* C3: the returned list is in the order of the input steps, whatever the  *)
(* order in which the results were pushed.                                 *)
C3_ResultsInStepOrder ==
    pc = "done" =>
        \A i, j \in 1..Len(results) :
            i < j => stepOrder(results[i].stepId) < stepOrder(results[j].stepId)

(* returned, after results were pushed out of input order *)
C3_Witness ==
    /\ pc = "done"
    /\ Len(results) >= 2
    /\ \E i, j \in 1..Len(pushed) :
          i < j /\ stepOrder(pushed[i]) > stepOrder(pushed[j])

----------------------------------------------------------------------------
(* The results of the run in which the handlers of a wave all complete     *)
(* together: a function of the plan and the catalog alone.                 *)

StepOutcome(id, outputs) ==
    LET step == StepOf(id)
        resolved == resolveArguments(step.arguments, outputs)
    IN IF ~HasTool(id)
       THEN [status |-> PlanStepStatus.Skipped,
             result |-> StepResultError(step, Obj(<<>>), ToolNotFound(step.toolName))]
       ELSE IF resolved.kind = "throw"
       THEN [status |-> PlanStepStatus.Skipped,
             result |-> StepResultError(step, Obj(<<>>),
                                        FailedToResolve(resolved.message))]
       ELSE IF HandlerOf(id) \in {"throw", "syncthrow"}
       THEN [status |-> PlanStepStatus.Failed,
             result |-> StepResultError(step, resolved, HandlerError(step.toolName))]
       ELSE [status |-> PlanStepStatus.Done,
             result |-> StepResult(step, resolved,
                                   IF HandlerOf(id) = "void" THEN Undefined
                                   ELSE HandlerValue(step.toolName, resolved))]

RECURSIVE LockstepRun(_, _, _)
LockstepRun(status, outputs, res) ==
    LET ready == {id \in Ids : IsReady(StepOf(id), status)}
        out == [id \in ready |-> StepOutcome(id, outputs)]
        done == {id \in ready : out[id].status = PlanStepStatus.Done}
    IN IF ready = {}
       THEN [id \in Ids |->
                IF status[id] = PlanStepStatus.Pending
                THEN StepResultError(StepOf(id), StepOf(id).arguments,
                                     SkippedDependencies)
                ELSE res[id]]
       ELSE LockstepRun(
                [id \in Ids |-> IF id \in ready THEN out[id].status ELSE status[id]],
                [id \in DOMAIN outputs \cup done |->
                    IF id \in done THEN out[id].result.output ELSE outputs[id]],
                [id \in DOMAIN res \cup ready |->
                    IF id \in ready THEN out[id].result ELSE res[id]])

LockstepResults ==
    LET res == LockstepRun([id \in Ids |-> PlanStepStatus.Pending], <<>>, <<>>)
    IN [k \in 1..Len(steps) |-> res[steps[k].stepId]]

(* C4: with handlers that are functions of their resolved arguments and    *)
(* that settle, every order of completion returns the same list: the       *)
(* resolved arguments, output and error of each step are those of the      *)
(* lockstep run.                                                           *)
C4_SameResultsForEveryCompletionOrder ==
    pc = "done" => results = LockstepResults

(* returned after two steps of one wave completed in the reverse of their  *)
(* input order, with a step that read the output of another                *)
C4_Witness ==
    /\ pc = "done"
    /\ \E a, b \in Ids :
          /\ waveOf[a] = waveOf[b]
          /\ waveOf[a] > 0
          /\ stepOrder(a) < stepOrder(b)
          /\ statusByStepId[a] = PlanStepStatus.Done
          /\ statusByStepId[b] = PlanStepStatus.Done
          /\ \E i, j \in 1..Len(pushed) : i < j /\ pushed[i] = b /\ pushed[j] = a
    /\ \E t \in Ids : Deps(t) # {} /\ statusByStepId[t] = PlanStepStatus.Done

----------------------------------------------------------------------------
(* C5: within a wave no step settles, that is, the promise of no handler   *)
(* is fulfilled (step done) or rejected (step failed), before every other  *)
(* ready step of the wave whose tool is in the catalog has had its handler *)
(* invoked.                                                                *)
C5_NoSettleBeforeWaveInvoked ==
    [][\A id \in Ids :
          (CanSettle(id) /\ id \notin DOMAIN resolvedArgs') =>
              \A k \in 1..Len(readySteps) :
                  readySteps[k].toolName \in DOMAIN toolsByName =>
                      handlerCalls[readySteps[k].stepId] >= 1]_vars

----------------------------------------------------------------------------
----------------------------------------------------------------------------
(* C7: a step starts as soon as the steps it depends on have completed,    *)
(* without waiting for steps it does not depend on: while a step is        *)
(* executing, no pending step has all of its dependencies done.            *)
C7_StartsAsSoonAsDepsComplete ==
    \A id, e \in Ids :
        (/\ pc = "await"
         /\ statusByStepId[id] = PlanStepStatus.Pending
         /\ statusByStepId[e] = PlanStepStatus.Executing)
        =>
        \E d \in Deps(id) :
            \/ d \notin DOMAIN statusByStepId
            \/ statusByStepId[d] # PlanStepStatus.Done

----------------------------------------------------------------------------
(* C8: the status of a step only moves pending -> executing,               *)
(* executing -> done, executing -> failed or pending -> skipped.           *)
C8_StatusMovesForward ==
    [][\A id \in Ids :
          statusByStepId'[id] # statusByStepId[id] =>
              <<statusByStepId[id], statusByStepId'[id]>> \in
                  { <<PlanStepStatus.Pending, PlanStepStatus.Executing>>,
                    <<PlanStepStatus.Executing, PlanStepStatus.Done>>,
                    <<PlanStepStatus.Executing, PlanStepStatus.Failed>>,
                    <<PlanStepStatus.Pending, PlanStepStatus.Skipped>> }]_vars

(* a run that ended with a step done, a step failed and a step skipped *)
C8_Witness ==
    /\ pc = "done"
    /\ \E a, b, c \in Ids :
          /\ statusByStepId[a] = PlanStepStatus.Done
          /\ statusByStepId[b] = PlanStepStatus.Failed
          /\ statusByStepId[c] = PlanStepStatus.Skipped

----------------------------------------------------------------------------
(* C9: a ready step whose tool is not in the catalog is skipped without a  *)
(* handler call, with arguments {}, output null and the error              *)
(* Tool "<name>" not found; the steps that depend on it are never          *)
(* dispatched and end skipped; every unhindered step still runs.           *)
C9_MissingToolSkipsOnlyItsDescendants ==
    /\ \A m \in Ids :
          (~HasTool(m) /\ Dispatched(m)) =>
              /\ statusByStepId[m] = PlanStepStatus.Skipped
              /\ handlerCalls[m] = 0
              /\ m \notin DOMAIN outputsByStepId
              /\ Cardinality(ResultsOf(m)) = 1
              /\ HasResult(m, StepResultError(StepOf(m), Obj(<<>>),
                                              ToolNotFound(StepOf(m).toolName)))
              /\ \A t \in Ids :
                    m \in Ancestors(t) =>
                        /\ handlerCalls[t] = 0
                        /\ ~Dispatched(t)
                        /\ pc = "done" =>
                              statusByStepId[t] = PlanStepStatus.Skipped
    /\ pc = "done" =>
          \A u \in Ids :
              Unhindered(u) => statusByStepId[u] # PlanStepStatus.Skipped

(* a ready step without a tool skipped, a step that depends on it skipped, *)
(* and another step done *)
C9_Witness ==
    /\ pc = "done"
    /\ \E m, t, u \in Ids :
          /\ ~HasTool(m)
          /\ Dispatched(m)
          /\ m \in Ancestors(t)
          /\ statusByStepId[t] = PlanStepStatus.Skipped
          /\ m \notin Ancestors(u)
          /\ Deps(u) # {}
          /\ statusByStepId[u] = PlanStepStatus.Done

----------------------------------------------------------------------------
(* C10: argument resolution of a dispatched step never raises: no result   *)
(* carries an error that begins "Failed to resolve arguments".             *)
C10_ResolutionNeverRaises ==
    \A k \in 1..Len(results) :
        "error" \in DOMAIN results[k] =>
            results[k].error[1] # "Failed to resolve arguments: "

----------------------------------------------------------------------------
(* Library functions called on their own.  The executor does not run: its  *)
(* variables keep the values below, arg holds the arguments of the call    *)
(* and ret what it returned.                                               *)

ExecutorIdle ==
    /\ steps = <<>>
    /\ tools = <<>>
    /\ statusByStepId = <<>>
    /\ outputsByStepId = <<>>
    /\ results = <<>>
    /\ readySteps = <<>>
    /\ launched = 0
    /\ pc = "done"
    /\ resolvedArgs = <<>>
    /\ handlerCalls = <<>>
    /\ waveOf = <<>>
    /\ wave = 0
    /\ pushed = <<>>

executorVars ==
    <<steps, tools, statusByStepId, outputsByStepId, results, readySteps,
      launched, pc, resolvedArgs, handlerCalls, waveOf, wave, pushed>>

Returned(value) == [kind |-> "returned", val |-> value]

(* every sequence of at most n elements of S *)
SeqsUpTo(S, n) == UNION {[1..k -> S] : k \in 0..n}

----------------------------------------------------------------------------
(* resolveValue on a template reference.                                   *)

MaxTemplateTokens == 3

(* the pieces the template strings are made of *)
TemplateTokens == {<<"{", "0", "}">>, <<"{", "1", "}">>, <<"x">>}

TemplateStrings == {Concat(ts) : ts \in SeqsUpTo(TemplateTokens, MaxTemplateTokens)}

(* what the referenced output keys may hold *)
ResolvedValues ==
    {Str(<<"v">>), Str(<<"{", "0", "}">>), Str(<<"{", "1", "}">>),
     Str(<<"$", "&">>), Num(7), Null}

TemplateValues ==
    { <<DependencyReference("s0", <<"a">>)>>,
      <<DependencyReference("s0", <<"a">>), DependencyReference("s0", <<"b">>)>> }

ResolveInit ==
    /\ ExecutorIdle
    /\ \E tpl \in TemplateStrings, values \in TemplateValues,
          a \in ResolvedValues, b \in ResolvedValues :
          arg = [value |-> StringTemplateReference(tpl, values),
                 outputsByStepId |->
                     [id \in {"s0"} |-> Obj(<< <<<<"a">>, a>>, <<<<"b">>, b>> >>)]]
    /\ ret = NotCalled

ResolveValueCall ==
    /\ ret = NotCalled
    /\ ret' = Returned(resolveValue(arg.value, arg.outputsByStepId))
    /\ UNCHANGED <<arg, executorVars>>

ResolveNext == ResolveValueCall

ResolveSpec == ResolveInit /\ [][ResolveNext]_vars

(* the positional marker {i} *)
Marker(i) == <<"{">> \o DecimalString(i) \o <<"}">>

(* C11: the string resolveValue returns for a template reference contains  *)
(* no marker {i} with 0 <= i < len($values), whatever the referenced       *)
(* outputs hold.                                                           *)
C11_NoMarkerLeftAfterResolution ==
    ret.kind = "returned" =>
        \A i \in 0..(Len(arg.value.values) - 1) :
            IndexOf(ret.val.val, Marker(i)) = 0

----------------------------------------------------------------------------
(* formatPath and normalizePath.                                           *)

(* the callback of the reduce of formatPath *)
FormatPart(acc, part) ==
    IF part.kind \in {"number", "nan"}
    THEN acc \o <<"[">> \o JsString(part) \o <<"]">>
    ELSE IF acc # <<>> THEN acc \o <<".">> \o part.val ELSE part.val

RECURSIVE FormatReduce(_, _)
FormatReduce(acc, path) ==
    IF path = <<>> THEN acc
    ELSE FormatReduce(FormatPart(acc, Head(path)), Tail(path))

formatPath(path) == IF Len(path) = 0 THEN <<>> ELSE FormatReduce(<<>>, path)

normalizePath(path) == formatPath(parsePath(path))

MaxPathLen == 2

MaxSegmentLen == 2

PathAlphabet == {".", "[", "]", "0", "a"}

(* the integer segments tried *)
PathIndices == {0, 1, 10}

PathSegments ==
    {Str(s) : s \in SeqsUpTo(PathAlphabet, MaxSegmentLen)}
        \cup {Num(n) : n \in PathIndices}

PathInit ==
    /\ ExecutorIdle
    /\ \E p \in SeqsUpTo(PathSegments, MaxPathLen) : arg = [path |-> p]
    /\ ret = NotCalled

(* parsePath(formatPath(path)) *)
FormatThenParse ==
    /\ ret = NotCalled
    /\ ret' = Returned(parsePath(formatPath(arg.path)))
    /\ UNCHANGED <<arg, executorVars>>

PathNext == FormatThenParse

PathSpec == PathInit /\ [][PathNext]_vars

(* C17: parsePath(formatPath(p)) = p for every path p of string and        *)
(* non-negative integer segments, the strings ranging over every string of *)
(* an alphabet with '.', '[', ']' and digits, the empty string included.   *)
C17_ParseFormatRoundTrip == ret.kind = "returned" => ret.val = arg.path

(* the segments that formatPath writes and parsePath reads back unchanged: *)
(* integers, and non-empty strings without '.', '[' or ']'                 *)
PlainSegment(part) ==
    \/ part.kind = "number"
    \/ /\ part.kind = "string"
       /\ part.val # <<>>
       /\ SeqToSet(part.val) \cap {".", "[", "]"} = {}

RoundTripOfPlainPaths ==
    (ret.kind = "returned" /\ \A k \in 1..Len(arg.path) : PlainSegment(arg.path[k]))
        => ret.val = arg.path

----------------------------------------------------------------------------
(* parseTemplateString.  Positions are 0-based as in the code.             *)

(* s.slice(from, to) *)
Slice(s, from, to) == SubSeq(s, from + 1, to)

NoMatch == [matched |-> FALSE]

(* NUMERIC_PLACEHOLDER = /\{(\d+)(?:\.([^}]+))?\}/ tried at the 0-based     *)
(* position index: "{", a greedy run of digits, then either "}" or "."     *)
(* with a non-empty run of characters other than "}" and then "}".         *)
(* Backtracking finds nothing more: a shorter run of digits is followed by *)
(* a digit, a shorter path by a character that is not "}".                 *)
PlaceholderAt(tpl, index) ==
    LET i == index + 1
        n == DigitRun(tpl, i + 1)
        close == i + n + 1
        m == NonQuoteRun(tpl, "}", close + 1)
    IN IF ~(i <= Len(tpl) /\ tpl[i] = "{" /\ n >= 1 /\ close <= Len(tpl))
       THEN NoMatch
       ELSE IF tpl[close] = "}"
       THEN [matched |-> TRUE, index |-> index, full |-> SubSeq(tpl, i, close),
             idxStr |-> SubSeq(tpl, i + 1, i + n), path |-> Undefined]
       ELSE IF tpl[close] = "." /\ m >= 1 /\ close + m + 1 <= Len(tpl)
       THEN [matched |-> TRUE, index |-> index,
             full |-> SubSeq(tpl, i, close + m + 1),
             idxStr |-> SubSeq(tpl, i + 1, i + n),
             path |-> Str(SubSeq(tpl, close + 1, close + m))]
       ELSE NoMatch

(* Array.from(tpl.matchAll(NUMERIC_PLACEHOLDER)), scanning from index on *)
RECURSIVE MatchAll(_, _)
MatchAll(tpl, index) ==
    IF index >= Len(tpl) THEN <<>>
    ELSE LET match == PlaceholderAt(tpl, index)
         IN IF match.matched
            THEN <<match>> \o MatchAll(tpl, index + Len(match.full))
            ELSE MatchAll(tpl, index + 1)

(* Number.parseInt(idxStr, 10) of a run of digits *)
ParseInt(idxStr) == DecimalValue(idxStr)

(* the body of the for loop with the bound placeholder written as the      *)
(* index of its step                                                       *)
OnMatch_MarkerIsStepIndex(tpl, stepIdByIndex, st, match) ==
    LET idx == ParseInt(match.idxStr)
        end == match.index + Len(match.full)
    IN IF idx \notin DOMAIN stepIdByIndex
       THEN [st EXCEPT !.result = @ \o Slice(tpl, st.lastIndex, end),
                       !.lastIndex = end]
       ELSE [values |-> Append(st.values,
                 DependencyReference(stepIdByIndex[idx],
                     IF match.path # Undefined THEN normalizePath(match.path.val)
                     ELSE <<>>)),
             result |-> st.result \o Slice(tpl, st.lastIndex, match.index)
                            \o Marker(idx),
             lastIndex |-> end]

(* the body of the for loop of parseTemplateString for one match; the      *)
(* branch on a missing idxStr cannot be taken, (\d+) never matches empty   *)
OnMatch(tpl, stepIdByIndex, st, match) ==
    LET idx == ParseInt(match.idxStr)
        end == match.index + Len(match.full)
    IN IF idx \notin DOMAIN stepIdByIndex
       THEN [st EXCEPT !.result = @ \o Slice(tpl, st.lastIndex, end),
                       !.lastIndex = end]
       ELSE [values |-> Append(st.values,
                 DependencyReference(stepIdByIndex[idx],
                     IF match.path # Undefined THEN normalizePath(match.path.val)
                     ELSE <<>>)),
             result |-> st.result \o Slice(tpl, st.lastIndex, match.index)
                            \o Marker(Len(st.values)),
             lastIndex |-> end]

RECURSIVE ForMatches(_, _, _, _)
ForMatches(tpl, stepIdByIndex, st, matches) ==
    IF matches = <<>> THEN st
    ELSE ForMatches(tpl, stepIdByIndex,
                    OnMatch(tpl, stepIdByIndex, st, Head(matches)),
                    Tail(matches))

(* returns the string (as Str) or a template reference *)
parseTemplateString(tpl, stepIdByIndex) ==
    LET matches == MatchAll(tpl, 0)
        st == ForMatches(tpl, stepIdByIndex,
                         [values |-> <<>>, result |-> <<>>, lastIndex |-> 0],
                         matches)
    IN IF Len(matches) = 0 THEN Str(tpl)
       ELSE IF Len(st.values) = 0 THEN Str(tpl)
       ELSE StringTemplateReference(
                st.result \o Slice(tpl, st.lastIndex, Len(tpl)), st.values)

MaxParseTokens == 4

(* the pieces of the strings given to parseTemplateString: the characters  *)
(* of the placeholder syntax one by one, and whole placeholders            *)
ParseTokens ==
    { <<"{">>, <<"}">>, <<"0">>, <<"1">>, <<".">>, <<"a">>,
      <<"{", "0", "}">>, <<"{", "1", "}">>, <<"{", "0", ".", "a", "}">> }

ParseStrings == {Concat(ts) : ts \in SeqsUpTo(ParseTokens, MaxParseTokens)}

(* stepIdByIndex of a plan of one step, of a plan of two steps, and the    *)
(* map with a gap that the tests of the template parser use                *)
StepIdMaps ==
    { [k \in {0} |-> "s0"],
      [k \in {0, 1} |-> StepIds[k + 1]],
      [k \in {0, 2} |-> StepIds[k + 1]] }

ParseInit ==
    /\ ExecutorIdle
    /\ \E tpl \in ParseStrings, stepIdByIndex \in StepIdMaps :
          arg = [tpl |-> tpl, stepIdByIndex |-> stepIdByIndex]
    /\ ret = NotCalled

ParseTemplateStringCall ==
    /\ ret = NotCalled
    /\ ret' = Returned(parseTemplateString(arg.tpl, arg.stepIdByIndex))
    /\ UNCHANGED <<arg, executorVars>>

ParseNext == ParseTemplateStringCall

ParseSpec == ParseInit /\ [][ParseNext]_vars

(* The placeholders of the argument, left to right, and what the claim     *)
(* says becomes of each.                                                   *)
Placeholders == MatchAll(arg.tpl, 0)

IsBound(j) == ParseInt(Placeholders[j].idxStr) \in DOMAIN arg.stepIdByIndex

BoundPlaceholders == {j \in 1..Len(Placeholders) : IsBound(j)}

(* how many bound placeholders stand before the j-th placeholder *)
Rank(j) == Cardinality({h \in BoundPlaceholders : h < j})

(* the text between the placeholder before the j-th and the j-th *)
TextBefore(j) ==
    Slice(arg.tpl,
          IF j = 1 THEN 0
          ELSE Placeholders[j - 1].index + Len(Placeholders[j - 1].full),
          Placeholders[j].index)

TextAfterLast ==
    LET last == Placeholders[Len(Placeholders)]
    IN Slice(arg.tpl, last.index + Len(last.full), Len(arg.tpl))

Rewritten ==
    Concat([j \in 1..Len(Placeholders) |->
               TextBefore(j) \o (IF IsBound(j) THEN Marker(Rank(j))
                                 ELSE Placeholders[j].full)])
        \o TextAfterLast

ValueOf(j) ==
    DependencyReference(
        arg.stepIdByIndex[ParseInt(Placeholders[j].idxStr)],
        IF Placeholders[j].path = Undefined THEN <<>>
        ELSE normalizePath(Placeholders[j].path.val))

(* C19: the k-th placeholder whose index is in the id map is replaced by   *)
(* {k} and gives $values[k]; a placeholder whose index is not in the map   *)
(* stays verbatim; all other text is unchanged; when no placeholder is     *)
(* bound the original string is returned.                                  *)
C19_PlaceholdersRewrittenInOrder ==
    ret.kind = "returned" =>
        IF BoundPlaceholders = {} THEN ret.val = Str(arg.tpl)
        ELSE /\ ret.val.kind = "tmpl"
             /\ ret.val.fromTemplateString = Rewritten
             /\ Len(ret.val.values) = Cardinality(BoundPlaceholders)
             /\ \A j \in BoundPlaceholders :
                    ret.val.values[Rank(j) + 1] = ValueOf(j)

(* a call with a bound placeholder after an unbound one and after another  *)
(* bound one, and text around them                                         *)
C19_Witness ==
    /\ ret.kind = "returned"
    /\ ret.val.kind = "tmpl"
    /\ \E j \in BoundPlaceholders :
          /\ Rank(j) = 1
          /\ Placeholders[j].path # Undefined
    /\ \E j \in 1..Len(Placeholders) : ~IsBound(j)
    /\ TextAfterLast # <<>>

(* the positions of $fromTemplateString where a marker {digits} stands *)
MarkersOf(tpl) ==
    {index \in 0..(Len(tpl) - 1) :
        LET match == PlaceholderAt(tpl, index)
        IN match.matched /\ match.path = Undefined}

(* C20: in a template reference that parseTemplateString returns, every    *)
(* marker {i} of $fromTemplateString has 0 <= i < len($values).            *)
C20_MarkersIndexValues ==
    (ret.kind = "returned" /\ ret.val.kind = "tmpl") =>
        \A index \in MarkersOf(ret.val.fromTemplateString) :
            ParseInt(PlaceholderAt(ret.val.fromTemplateString, index).idxStr)
                < Len(ret.val.values)

----------------------------------------------------------------------------
(* parsePlanSteps, from the decoded and shape-checked plan on: a sequence  *)
(* of [toolName, arguments] with arguments an object of arbitrary values.  *)

HasKey(fields, key) == \E k \in 1..Len(fields) : fields[k][1] = key

(* "fromStep" in value && "outputKey" in value, for a non-null object; the *)
(* two keys are only ever compared whole and are kept as one element each  *)
isRawDependencyReference(value) ==
    /\ value.kind = "object"
    /\ HasKey(value.fields, <<"fromStep">>)
    /\ HasKey(value.fields, <<"outputKey">>)

RawDependencyReference(fromStep, outputKey) ==
    Obj(<< <<<<"fromStep">>, fromStep>>, <<<<"outputKey">>, outputKey>> >>)

(* !value *)
Falsy(value) ==
    \/ value.kind \in {"undefined", "null", "nan"}
    \/ value.kind = "number" /\ value.val = 0
    \/ value.kind = "string" /\ value.val = <<>>
    \/ value.kind = "boolean" /\ ~value.val

(* normalizePath(ref.outputKey) for an outputKey of any type: a falsy one  *)
(* is taken for the empty path, another non-string has no replace method   *)
NormalizeOutputKey(outputKey) ==
    IF outputKey.kind = "string" THEN Str(normalizePath(outputKey.val))
    ELSE IF Falsy(outputKey) THEN Str(<<>>)
    ELSE Thrown(<<"path.replace is not a function">>)

(* stepIdByIndex.get(ref.fromStep) finds a step id *)
IsStepIndex(fromStep, stepIdByIndex) ==
    fromStep.kind = "number" /\ fromStep.val \in DOMAIN stepIdByIndex

InvalidDependencyReference(fromStep) ==
    <<"Invalid dependency reference: step ">> \o JsString(fromStep)
        \o <<" not found">>

(* the branch of transformParamsValue for a raw dependency reference *)
TransformRawReference(ref, stepIdByIndex) ==
    LET fromStep == GetField(ref.fields, <<"fromStep">>)
        outputKey == NormalizeOutputKey(GetField(ref.fields, <<"outputKey">>))
    IN IF ~IsStepIndex(fromStep, stepIdByIndex)
       THEN Thrown(InvalidDependencyReference(fromStep))
       ELSE IF outputKey.kind = "throw" THEN outputKey
       ELSE DependencyReference(stepIdByIndex[fromStep.val], outputKey.val)

(* the transformed items of an array, or the first error thrown by one *)
ArrayOf(items) ==
    IF FirstThrown(items) # Undefined THEN FirstThrown(items) ELSE Arr(items)

(* the transformed values under the keys of fields, or the first error     *)
(* thrown by one                                                           *)
ObjectOf(fields, items) ==
    IF FirstThrown(items) # Undefined THEN FirstThrown(items)
    ELSE Obj([k \in 1..Len(fields) |-> <<fields[k][1], items[k]>>])

RECURSIVE transformParamsValue_KeepArrays(_, _)
(* transformParamsValue returning arrays as they are *)
transformParamsValue_KeepArrays(value, stepIdByIndex) ==
    IF value.kind = "array" THEN value
    ELSE IF value.kind = "string"
    THEN parseTemplateString(value.val, stepIdByIndex)
    ELSE IF isRawDependencyReference(value)
    THEN TransformRawReference(value, stepIdByIndex)
    ELSE IF value.kind = "object"
    THEN ObjectOf(value.fields,
                  [k \in 1..Len(value.fields) |->
                      transformParamsValue_KeepArrays(value.fields[k][2],
                                                      stepIdByIndex)])
    ELSE value

RECURSIVE transformParamsValue(_, _)
(* the transformed value, or Thrown(message) *)
transformParamsValue(value, stepIdByIndex) ==
    IF value.kind = "array"
    THEN ArrayOf([k \in 1..Len(value.items) |->
                     transformParamsValue(value.items[k], stepIdByIndex)])
    ELSE IF value.kind = "string"
    THEN parseTemplateString(value.val, stepIdByIndex)
    ELSE IF isRawDependencyReference(value)
    THEN TransformRawReference(value, stepIdByIndex)
    ELSE IF value.kind = "object"
    THEN ObjectOf(value.fields,
                  [k \in 1..Len(value.fields) |->
                      transformParamsValue(value.fields[k][2], stepIdByIndex)])
    ELSE value

(* params is the object step.arguments: each entry is transformed, the     *)
(* object itself is not looked at                                          *)
transformParams(params, stepIdByIndex) ==
    ObjectOf(params.fields,
             [k \in 1..Len(params.fields) |->
                 transformParamsValue(params.fields[k][2], stepIdByIndex)])

(* uuidv4() of the step at an index: fresh, so one distinct id per index *)
StepIdAt(index) == StepIds[index + 1]

(* the steps built from the transformed arguments, or the first error      *)
(* thrown while transforming them                                          *)
StepsOf(rawPlan, arguments) ==
    IF FirstThrown(arguments) # Undefined THEN FirstThrown(arguments)
    ELSE Arr([k \in 1..Len(rawPlan) |->
                 PlanStep(StepIdAt(k - 1), rawPlan[k].toolName, arguments[k])])

(* rawPlan is rawPlan.data; the result is the array of the steps, or       *)
(* Thrown(message)                                                         *)
parsePlanSteps(rawPlan) ==
    StepsOf(rawPlan,
            [k \in 1..Len(rawPlan) |->
                transformParams(rawPlan[k].arguments,
                                [index \in 0..(Len(rawPlan) - 1) |->
                                    StepIdAt(index)])])

MaxRawSteps == 2

MaxRawDepth == 2

(* an index that is no step of any plan tried *)
GhostIndex == 5

(* argument values without nesting: a string, a template string, raw       *)
(* references to the steps 0 and 1 and to no step, and raw-shaped objects  *)
(* whose fromStep is not a number or whose outputKey is not a string       *)
RawLeaves ==
    { Str(<<"x">>),
      Str(<<"{", "0", ".", "a", "}">>),
      RawDependencyReference(Num(0), Str(<<"a", "[", "'", "b", "'", "]">>)),
      RawDependencyReference(Num(1), Str(<<"a", ".", "0">>)),
      RawDependencyReference(Num(GhostIndex), Str(<<"a">>)),
      RawDependencyReference(Str(<<"0">>), Str(<<"a">>)),
      RawDependencyReference(Num(0), Null),
      RawDependencyReference(Num(0), Bool(TRUE)) }

(* argument values nested in arrays and objects, depth levels deep *)
RECURSIVE RawValues(_)
RawValues(depth) ==
    IF depth = 0 THEN RawLeaves
    ELSE RawLeaves
           \cup {Arr(<<Num(1), v>>) : v \in RawValues(depth - 1)}
           \cup {Obj(<< <<<<"o">>, v>> >>) : v \in RawValues(depth - 1)}

RawStep(toolName, value) ==
    [toolName |-> toolName, arguments |-> Obj(<< <<<<"p">>, value>> >>)]

(* Decoded plans: the last step has a nested argument, the steps before it *)
(* a flat one; and a plan whose arguments object itself has the two keys   *)
(* of a raw reference.                                                     *)
RawPlans ==
    UNION {
      { [k \in 1..n |-> RawStep(ToolNames[k], IF k = n THEN last ELSE flat[k])] :
            flat \in [1..(n - 1) -> RawLeaves], last \in RawValues(MaxRawDepth) }
      : n \in 1..MaxRawSteps }
    \cup { << [toolName |-> "A",
               arguments |-> RawDependencyReference(Num(0), Str(<<"a">>))] >> }

TransformInit ==
    /\ ExecutorIdle
    /\ \E rawPlan \in RawPlans : arg = [rawPlan |-> rawPlan]
    /\ ret = NotCalled

(* what a call leaves: the error thrown or the steps returned *)
Outcome(plan) == IF plan.kind = "throw" THEN plan ELSE Returned(plan.items)

ParsePlanStepsCall ==
    /\ ret = NotCalled
    /\ ret' = Outcome(parsePlanSteps(arg.rawPlan))
    /\ UNCHANGED <<arg, executorVars>>

TransformNext == ParsePlanStepsCall

TransformSpec == TransformInit /\ [][TransformNext]_vars

(* the values at any depth of arrays and objects below a value, itself     *)
(* included; references are leaves                                         *)
RECURSIVE ValuesWithin(_)
ValuesWithin(value) ==
    {value} \cup
      (IF value.kind = "array"
       THEN UNION {ValuesWithin(value.items[k]) : k \in 1..Len(value.items)}
       ELSE IF value.kind = "object"
       THEN UNION {ValuesWithin(value.fields[k][2]) : k \in 1..Len(value.fields)}
       ELSE {})

(* the values at any depth in the arguments of a step *)
ArgumentValues(arguments) ==
    UNION {ValuesWithin(arguments.fields[k][2]) : k \in 1..Len(arguments.fields)}

(* the raw references of a decoded value that transformParamsValue meets:  *)
(* it does not look inside a raw reference                                 *)
RECURSIVE RawReferencesWithin(_)
RawReferencesWithin(value) ==
    IF value.kind = "array"
    THEN UNION {RawReferencesWithin(value.items[k]) : k \in 1..Len(value.items)}
    ELSE IF isRawDependencyReference(value) THEN {value}
    ELSE IF value.kind = "object"
    THEN UNION {RawReferencesWithin(value.fields[k][2]) :
                    k \in 1..Len(value.fields)}
    ELSE {}

RawReferencesOf(rawPlan) ==
    UNION {UNION {RawReferencesWithin(rawPlan[k].arguments.fields[j][2]) :
                      j \in 1..Len(rawPlan[k].arguments.fields)} :
               k \in 1..Len(rawPlan)}

(* out is what the claim says value is rewritten to: raw references become *)
(* dependency references on the step at their index with the normalized    *)
(* path, arrays and objects keep their shape, strings are left to the      *)
(* template parser, everything else is unchanged                           *)
RECURSIVE RewrittenAs(_, _, _)
RewrittenAs(value, out, n) ==
    IF value.kind = "array"
    THEN /\ out.kind = "array"
         /\ Len(out.items) = Len(value.items)
         /\ \A k \in 1..Len(value.items) :
                RewrittenAs(value.items[k], out.items[k], n)
    ELSE IF value.kind = "string" THEN out.kind \in {"string", "tmpl"}
    ELSE IF isRawDependencyReference(value)
    THEN LET fromStep == GetField(value.fields, <<"fromStep">>)
             outputKey == GetField(value.fields, <<"outputKey">>)
         IN /\ fromStep.kind = "number"
            /\ fromStep.val \in 0..(n - 1)
            /\ out = DependencyReference(
                         StepIdAt(fromStep.val),
                         IF outputKey.kind = "string"
                         THEN formatPath(parsePath(outputKey.val)) ELSE <<>>)
    ELSE IF value.kind = "object"
    THEN /\ out.kind = "object"
         /\ Len(out.fields) = Len(value.fields)
         /\ \A k \in 1..Len(value.fields) :
                /\ out.fields[k][1] = value.fields[k][1]
                /\ RewrittenAs(value.fields[k][2], out.fields[k][2], n)
    ELSE out = value

(* C18: when parsePlanSteps returns a plan, no value at any depth of any   *)
(* step's arguments has the raw shape {fromStep, outputKey}, each raw      *)
(* reference was rewritten to the dependency reference on the step at its  *)
(* index with the normalized path, and a raw reference whose index is not  *)
(* a step index makes parsePlanSteps throw.                                *)
C18_NoRawReferenceLeft ==
    /\ ret.kind = "returned" =>
          \A k \in 1..Len(ret.val) :
              /\ \A v \in ArgumentValues(ret.val[k].arguments) :
                     ~isRawDependencyReference(v)
              /\ \A j \in 1..Len(arg.rawPlan[k].arguments.fields) :
                     RewrittenAs(arg.rawPlan[k].arguments.fields[j][2],
                                 ret.val[k].arguments.fields[j][2],
                                 Len(arg.rawPlan))
    /\ (/\ ret # NotCalled
        /\ \E ref \in RawReferencesOf(arg.rawPlan) :
               ~IsStepIndex(GetField(ref.fields, <<"fromStep">>),
                            [index \in 0..(Len(arg.rawPlan) - 1) |-> index]))
          => ret.kind = "throw"

(* a returned plan with a raw reference inside an array inside an object   *)
C18_Witness ==
    /\ ret.kind = "returned"
    /\ \E ref \in RawReferencesOf(arg.rawPlan) :
          Obj(<< <<<<"o">>, Arr(<<Num(1), ref>>)>> >>)
              \in ArgumentValues(arg.rawPlan[Len(arg.rawPlan)].arguments)

----------------------------------------------------------------------------
(* Schemas.  A tool's inputSchema and outputSchema are JSON Schema texts   *)
(* that parseSchema compiles with z.fromJSONSchema; the library is not     *)
(* part of the repository, so a schema text is given by the Zod tree it    *)
(* compiles to (a record with a zod field naming the class), or by         *)
(* InvalidSchema when it does not compile.                                 *)

(* ZodAny, ZodUnknown, ZodString, ZodNumber, ZodBoolean, ZodNull, ZodEnum, *)
(* ZodNever (any class the validator does not know)                        *)
Zod(class) == [zod |-> class]

(* ZodOptional, ZodDefault, ZodNullable *)
ZodWrapper(class, innerType) == [zod |-> class, innerType |-> innerType]

ZodArray(element) == [zod |-> "array", element |-> element]

(* prefixItems *)
ZodTuple(items) == [zod |-> "tuple", items |-> items]

(* shape is the list of <<key, schema>> of the properties, catchall a      *)
(* schema or NoSchema                                                      *)
ZodObject(shape, catchall) ==
    [zod |-> "object", shape |-> shape, catchall |-> catchall]

(* ZodUnion for anyOf ("union"), ZodXor for oneOf ("xor") *)
ZodUnion(class, options) == [zod |-> class, options |-> options]

ZodLiteral(value) == [zod |-> "literal", value |-> value]

(* undefined where a schema is expected *)
NoSchema == [zod |-> "undefined"]

InvalidSchema == [zod |-> "invalid"]

RECURSIVE unwrapSchema(_)
unwrapSchema(schema) ==
    IF schema.zod \in {"optional", "default", "nullable"}
    THEN unwrapSchema(schema.innerType)
    ELSE schema

(* shape[segment] *)
RECURSIVE ShapeAt(_, _)
ShapeAt(shape, segment) ==
    IF shape = <<>> THEN NoSchema
    ELSE IF Head(shape)[1] = segment THEN Head(shape)[2]
    ELSE ShapeAt(Tail(shape), segment)

getObjectChildSchema(schema, segment) ==
    IF ShapeAt(schema.shape, segment) # NoSchema
    THEN ShapeAt(schema.shape, segment)
    ELSE IF /\ schema.catchall # NoSchema
            /\ schema.catchall.zod \notin {"unknown", "any", "never"}
    THEN schema.catchall
    ELSE IF Len(schema.shape) = 0 THEN Zod("any")
    ELSE NoSchema

(* what getSchemaAtPath returns at a union once every option was resolved, *)
(* for a rule that wants every option to resolve                           *)
ResolvedUnion_EveryOption(resolved) ==
    LET resolvedOptions == SelectSeq(resolved, LAMBDA r : r # NoSchema)
    IN IF Len(resolvedOptions) < Len(resolved) THEN NoSchema
       ELSE IF Len(resolvedOptions) = 1 THEN resolvedOptions[1]
       ELSE ZodUnion("union", resolvedOptions)

(* lines 254-268: resolved is options.map(getSchemaAtPath(option, path)) *)
ResolvedUnion(resolved) ==
    LET resolvedOptions == SelectSeq(resolved, LAMBDA r : r # NoSchema)
    IN IF Len(resolvedOptions) = 0 THEN NoSchema
       ELSE IF Len(resolvedOptions) = 1 THEN resolvedOptions[1]
       ELSE ZodUnion("union", resolvedOptions)

RECURSIVE getSchemaAtPath(_, _)
getSchemaAtPath(schema, path) ==
    LET unwrapped == unwrapSchema(schema)
        segment == Head(path)
        remainingPath == Tail(path)
    IN IF Len(path) = 0 THEN unwrapped
       ELSE IF unwrapped.zod \in {"union", "xor"}
       THEN ResolvedUnion([k \in 1..Len(unwrapped.options) |->
                              getSchemaAtPath(unwrapped.options[k], path)])
       ELSE IF segment.kind \in {"number", "nan"}
       THEN IF unwrapped.zod # "array" THEN NoSchema
            ELSE getSchemaAtPath(unwrapped.element, remainingPath)
       ELSE IF unwrapped.zod = "array" /\ isNumericString(segment.val)
       THEN getSchemaAtPath(unwrapped.element, remainingPath)
       ELSE IF unwrapped.zod # "object" THEN NoSchema
       ELSE LET childSchema == getObjectChildSchema(unwrapped, segment.val)
            IN IF childSchema = NoSchema THEN NoSchema
               ELSE getSchemaAtPath(childSchema, remainingPath)

(* typeof value of a literal, through LITERAL_TYPE_MAP *)
LiteralType(value) ==
    IF value.kind \in {"string", "number", "boolean"} THEN value.kind
    ELSE IF value.kind = "nan" THEN "number"
    ELSE "unknown"

RECURSIVE getTypeSet(_)
getTypeSet(schema) ==
    LET unwrapped == unwrapSchema(schema)
    IN CASE unwrapped.zod \in {"any", "unknown"} -> {"any"}
         [] unwrapped.zod \in {"string", "enum"} -> {"string"}
         [] unwrapped.zod \in {"number", "boolean", "null", "object"} ->
                {unwrapped.zod}
         [] unwrapped.zod \in {"array", "tuple"} -> {"array"}
         [] unwrapped.zod = "literal" -> {LiteralType(unwrapped.value)}
         [] unwrapped.zod \in {"union", "xor"} ->
                UNION {getTypeSet(unwrapped.options[k]) :
                           k \in 1..Len(unwrapped.options)}
         [] OTHER -> {"unknown"}

(* the type names in the order of Array.prototype.sort *)
SortedTypeNames ==
    <<"any", "array", "boolean", "null", "number", "object", "string", "unknown">>

(* [...getTypeSet(schema)].sort().join(" | "), kept as the list joined *)
describeSchemaType(schema) ==
    SelectSeq(SortedTypeNames, LAMBDA name : name \in getTypeSet(schema))

isOptionalField(schema) == schema.zod \in {"optional", "default"}

RECURSIVE isSchemaCompatible(_, _)
isSchemaCompatible(expected, actual) ==
    LET expectedUnwrapped == unwrapSchema(expected)
        actualUnwrapped == unwrapSchema(actual)
        expectedShape == expectedUnwrapped.shape
        actualShape == actualUnwrapped.shape
    IN IF expectedUnwrapped.zod = "any" \/ actualUnwrapped.zod = "any" THEN TRUE
       ELSE IF expectedUnwrapped.zod \in {"union", "xor"}
       THEN \E k \in 1..Len(expectedUnwrapped.options) :
                isSchemaCompatible(expectedUnwrapped.options[k], actualUnwrapped)
       ELSE IF actualUnwrapped.zod \in {"union", "xor"}
       THEN \E k \in 1..Len(actualUnwrapped.options) :
                isSchemaCompatible(expectedUnwrapped, actualUnwrapped.options[k])
       ELSE IF expectedUnwrapped.zod = "array" /\ actualUnwrapped.zod = "array"
       THEN isSchemaCompatible(expectedUnwrapped.element, actualUnwrapped.element)
       ELSE IF expectedUnwrapped.zod = "object" /\ actualUnwrapped.zod = "object"
       THEN /\ \A k \in 1..Len(expectedShape) :
                   \/ isOptionalField(expectedShape[k][2])
                   \/ /\ ShapeAt(actualShape, expectedShape[k][1]) # NoSchema
                      /\ isSchemaCompatible(
                             expectedShape[k][2],
                             ShapeAt(actualShape, expectedShape[k][1]))
            /\ \A k \in 1..Len(actualShape) :
                   \/ ShapeAt(expectedShape, actualShape[k][1]) = NoSchema
                   \/ isSchemaCompatible(
                          ShapeAt(expectedShape, actualShape[k][1]),
                          actualShape[k][2])
       ELSE \/ "any" \in getTypeSet(expected)
            \/ "unknown" \in getTypeSet(actual)
            \/ getTypeSet(expected) \cap getTypeSet(actual) # {}

----------------------------------------------------------------------------
(* isValidPlan.  The errors array is the value the functions return.       *)

(* a tool as the validator reads it *)
SchemaTool(name, inputSchema, outputSchema) ==
    [name |-> name, inputSchema |-> inputSchema, outputSchema |-> outputSchema]

(* z.fromJSONSchema(JSON5.parse(rawSchema)), or the Error thrown *)
parseSchema(rawSchema) ==
    IF rawSchema = InvalidSchema
    THEN Thrown(<<"Invalid JSON schema: ", "JSON5: invalid character">>)
    ELSE rawSchema

(* the last element of a list with the given value under the given field:  *)
(* new Map(list.map((x) => [x[field], x])).get(value)                      *)
LastWith(list, field, value) ==
    list[CHOOSE k \in 1..Len(list) :
             /\ list[k][field] = value
             /\ \A j \in (k + 1)..Len(list) : list[j][field] # value]

ToolsByName(toolList) ==
    [name \in {toolList[k].name : k \in 1..Len(toolList)} |->
        LastWith(toolList, "name", name)]

StepsById(stepList) ==
    [id \in {stepList[k].stepId : k \in 1..Len(stepList)} |->
        LastWith(stepList, "stepId", id)]

(* ParseSchemas dropping the tools that do not parse without a word *)
RECURSIVE ParseSchemas_Silent(_, _)
ParseSchemas_Silent(toolList, n) ==
    IF n = 0 THEN [schemasByTool |-> <<>>, errors |-> <<>>]
    ELSE IF InvalidSchema \in {toolList[n].inputSchema, toolList[n].outputSchema}
    THEN ParseSchemas_Silent(toolList, n - 1)
    ELSE [ParseSchemas_Silent(toolList, n - 1) EXCEPT !.schemasByTool =
             (toolList[n].name :> [input |-> toolList[n].inputSchema,
                                   output |-> toolList[n].outputSchema]) @@ @]

(* lines 31-45 for the first n tools: the schemas parsed so far and the    *)
(* errors pushed so far                                                    *)
RECURSIVE ParseSchemas(_, _)
ParseSchemas(toolList, n) ==
    IF n = 0 THEN [schemasByTool |-> <<>>, errors |-> <<>>]
    ELSE LET before == ParseSchemas(toolList, n - 1)
             tool == toolList[n]
             input == parseSchema(tool.inputSchema)
             output == parseSchema(tool.outputSchema)
         IN IF InvalidSchema \in {tool.inputSchema, tool.outputSchema}
            THEN [before EXCEPT !.errors = Append(@,
                     [code |-> "schema_parse_error",
                      message |-> <<"Failed to parse input/output schema for tool \"",
                                    tool.name, "\": ">>
                                    \o parseSchema(InvalidSchema).message,
                      toolName |-> tool.name])]
            ELSE [before EXCEPT !.schemasByTool =
                     (tool.name :> [input |-> input, output |-> output]) @@ @]

(* traverseReferences with the callbacks of isValidPlan: the references    *)
(* visited, each with the path it stands at, in visiting order             *)
RECURSIVE ReferenceVisits(_, _)
ReferenceVisits(value, currentPath) ==
    IF isDependencyReference(value) \/ isStringTemplateReference(value)
    THEN << [ref |-> value, path |-> currentPath] >>
    ELSE IF value.kind = "array"
    THEN Concat([k \in 1..Len(value.items) |->
                    ReferenceVisits(value.items[k],
                                    Append(currentPath, Num(k - 1)))])
    ELSE IF value.kind = "object"
    THEN Concat([k \in 1..Len(value.fields) |->
                    ReferenceVisits(value.fields[k][2],
                                    Append(currentPath, Str(value.fields[k][1])))])
    ELSE <<>>

(* the errors validateOutputReference pushes; inputPath is formatted *)
validateOutputReference(reference, inputPath, expectedSchema, step, stepsById, schemasByTool) ==
    LET baseContext ==
            [stepId |-> step.stepId, toolName |-> step.toolName,
             argumentPath |-> inputPath, fromStepId |-> reference.fromStep,
             outputPath |-> reference.outputKey]
        sourceStep == stepsById[reference.fromStep]
        sourceSchemas == schemasByTool[sourceStep.toolName]
        outputSchema == getSchemaAtPath(sourceSchemas.output,
                                        parsePath(reference.outputKey))
    IN IF reference.fromStep \notin DOMAIN stepsById
       THEN << [code |-> "dependency_step_missing",
                message |-> <<"Step \"", reference.fromStep, "\" not found">>]
               @@ baseContext >>
       ELSE IF sourceStep.toolName \notin DOMAIN schemasByTool
       THEN << [code |-> "schema_parse_error",
                message |-> <<"Output schema for tool \"", sourceStep.toolName,
                              "\" could not be parsed">>]
               @@ baseContext >>
       ELSE IF outputSchema = NoSchema
       THEN << [code |-> "output_key_missing",
                message |-> <<"Output key \"">> \o reference.outputKey
                              \o <<"\" not found on tool \"",
                                   sourceStep.toolName, "\"">>]
               @@ baseContext >>
       ELSE IF ~isSchemaCompatible(expectedSchema, outputSchema)
       THEN << [code |-> "type_mismatch",
                message |-> <<"Type mismatch for \"">> \o inputPath \o <<"\"">>,
                expectedType |-> describeSchemaType(expectedSchema),
                actualType |-> describeSchemaType(outputSchema)]
               @@ baseContext >>
       ELSE <<>>

(* onDependency looking for the referenced step before the input path *)
onDependency_StepFirst(ref, inputPath, step, schemas, stepsById, schemasByTool) ==
    IF ref.fromStep \notin DOMAIN stepsById
    THEN validateOutputReference(ref, formatPath(inputPath), NoSchema, step,
                                 stepsById, schemasByTool)
    ELSE IF getSchemaAtPath(schemas.input, inputPath) = NoSchema
    THEN << [code |-> "input_key_missing",
             stepId |-> step.stepId, toolName |-> step.toolName,
             argumentPath |-> formatPath(inputPath),
             fromStepId |-> ref.fromStep, outputPath |-> ref.outputKey] >>
    ELSE validateOutputReference(ref, formatPath(inputPath),
                                 getSchemaAtPath(schemas.input, inputPath),
                                 step, stepsById, schemasByTool)

(* the callback onDependency of isValidPlan, lines 73-99 *)
onDependency(ref, inputPath, step, schemas, stepsById, schemasByTool) ==
    LET formattedInputPath == formatPath(inputPath)
        expectedSchema == getSchemaAtPath(schemas.input, inputPath)
    IN IF expectedSchema = NoSchema
       THEN << [code |-> "input_key_missing",
                message |-> <<"Input path \"">> \o formattedInputPath
                              \o <<"\" not found on tool \"", step.toolName, "\"">>,
                stepId |-> step.stepId, toolName |-> step.toolName,
                argumentPath |-> formattedInputPath,
                fromStepId |-> ref.fromStep, outputPath |-> ref.outputKey] >>
       ELSE validateOutputReference(ref, formattedInputPath, expectedSchema,
                                    step, stepsById, schemasByTool)

(* z.union([z.string(), z.number(), z.boolean(), z.object({}),             *)
(*          z.array(z.any())])                                             *)
stringCoercible ==
    ZodUnion("union",
             << Zod("string"), Zod("number"), Zod("boolean"),
                ZodObject(<<>>, NoSchema), ZodArray(Zod("any")) >>)

(* the head of validateStringTemplateReference, lines 197-220: the errors  *)
(* pushed before the loop over $values, and whether the loop is reached    *)
TemplateContext(formattedInputPath, step) ==
    [stepId |-> step.stepId, toolName |-> step.toolName,
     argumentPath |-> formattedInputPath]

TemplateHead(expectedSchema, formattedInputPath, step) ==
    IF expectedSchema = NoSchema
    THEN << [code |-> "input_key_missing",
             message |-> <<"Input path \"">> \o formattedInputPath
                           \o <<"\" not found on tool \"", step.toolName, "\"">>]
            @@ TemplateContext(formattedInputPath, step) >>
    ELSE IF ~isSchemaCompatible(expectedSchema, Zod("string"))
    THEN << [code |-> "type_mismatch",
             message |-> <<"Type mismatch for \"">> \o formattedInputPath
                           \o <<"\"">>,
             expectedType |-> describeSchemaType(expectedSchema),
             actualType |-> <<"string">>]
            @@ TemplateContext(formattedInputPath, step) >>
    ELSE <<>>

(* the loop of lines 230-240 *)
TemplateValuesErrors(reference, formattedInputPath, step, stepsById, schemasByTool) ==
    Concat([k \in 1..Len(reference.values) |->
               validateOutputReference(reference.values[k], formattedInputPath,
                                       stringCoercible, step, stepsById,
                                       schemasByTool)])

(* a validator that returns once the placeholder's own type is refused *)
validateStringTemplateReference_StopAtMismatch(reference, inputPath, step, inputSchema, stepsById, schemasByTool) ==
    LET formattedInputPath == formatPath(inputPath)
        expectedSchema == getSchemaAtPath(inputSchema, inputPath)
        head == TemplateHead(expectedSchema, formattedInputPath, step)
    IN IF head # <<>> THEN head
       ELSE TemplateValuesErrors(reference, formattedInputPath, step,
                                 stepsById, schemasByTool)

(* a validator that never looks into $values *)
validateStringTemplateReference_IgnoreValues(reference, inputPath, step, inputSchema, stepsById, schemasByTool) ==
    TemplateHead(getSchemaAtPath(inputSchema, inputPath),
                 formatPath(inputPath), step)

validateStringTemplateReference(reference, inputPath, step, inputSchema, stepsById, schemasByTool) ==
    LET formattedInputPath == formatPath(inputPath)
        expectedSchema == getSchemaAtPath(inputSchema, inputPath)
        head == TemplateHead(expectedSchema, formattedInputPath, step)
    IN IF expectedSchema = NoSchema THEN head
       ELSE head \o TemplateValuesErrors(reference, formattedInputPath, step,
                                         stepsById, schemasByTool)

(* the errors one visited reference adds, lines 73-110 *)
VisitErrors(visit, step, schemas, stepsById, schemasByTool) ==
    IF isDependencyReference(visit.ref)
    THEN onDependency(visit.ref, visit.path, step, schemas, stepsById,
                      schemasByTool)
    ELSE validateStringTemplateReference(visit.ref, visit.path, step,
                                         schemas.input, stepsById,
                                         schemasByTool)

(* the body of the loop over steps, lines 47-112 *)
StepErrors(step, toolsByNameMap, stepsById, schemasByTool) ==
    LET tool == toolsByNameMap[step.toolName]
        schemas == schemasByTool[tool.name]
        visits == ReferenceVisits(step.arguments, <<>>)
    IN IF step.toolName \notin DOMAIN toolsByNameMap
       THEN << [code |-> "tool_not_found",
                message |-> <<"Tool \"", step.toolName, "\" not found">>,
                stepId |-> step.stepId, toolName |-> step.toolName] >>
       ELSE IF tool.name \notin DOMAIN schemasByTool
       THEN << [code |-> "schema_parse_error",
                message |-> <<"Schemas for tool \"", tool.name,
                              "\" could not be parsed">>,
                stepId |-> step.stepId, toolName |-> tool.name] >>
       ELSE Concat([k \in 1..Len(visits) |->
                       VisitErrors(visits[k], step, schemas, stepsById,
                                   schemasByTool)])

(* a validator that reports the first error only *)
isValidPlan_FailFast(stepList, toolList) ==
    LET parsed == ParseSchemas(toolList, Len(toolList))
        errors == parsed.errors
                  \o Concat([k \in 1..Len(stepList) |->
                                StepErrors(stepList[k], ToolsByName(toolList),
                                           StepsById(stepList),
                                           parsed.schemasByTool)])
    IN [valid |-> Len(errors) = 0,
        errors |-> IF errors = <<>> THEN <<>> ELSE << errors[1] >>]

isValidPlan(stepList, toolList) ==
    LET parsed == ParseSchemas(toolList, Len(toolList))
        errors == parsed.errors
                  \o Concat([k \in 1..Len(stepList) |->
                                StepErrors(stepList[k], ToolsByName(toolList),
                                           StepsById(stepList),
                                           parsed.schemasByTool)])
    IN [valid |-> Len(errors) = 0, errors |-> errors]

----------------------------------------------------------------------------
(* Plans and catalogs for the validator: step s0 runs the source tool A,   *)
(* step s1 runs the consumer tool B with references into s0.               *)

MaxArguments == 2

Field(key, schema) == << <<key>>, schema >>

(* the schema of the property a of the output of A *)
OutputFieldSchemas ==
    { Zod("string"), Zod("number"), Zod("null"),
      ZodArray(Zod("number")),
      ZodTuple(<< Zod("number"), Zod("number") >>),
      ZodUnion("union", << ZodObject(<< Field("b", Zod("string")) >>, NoSchema),
                           Zod("null") >>),
      ZodUnion("xor", << ZodObject(<< Field("b", Zod("string")) >>, NoSchema),
                         ZodObject(<< Field("b", Zod("number")) >>, NoSchema) >>),
      ZodWrapper("nullable",
                 ZodObject(<< Field("b", Zod("number")) >>, NoSchema)) }

OutputSchemas ==
    { ZodObject(<< Field("a", field) >>, NoSchema) : field \in OutputFieldSchemas }
        \cup { InvalidSchema }

(* the schema of the property p of the input of B *)
InputFieldSchemas ==
    { Zod("string"), Zod("number"), ZodArray(Zod("number")),
      ZodArray(Zod("string")),
      ZodWrapper("optional", Zod("string")) }

(* the keys of the arguments of s1, in order; B declares the first two *)
ArgumentKeys == << <<"p">>, <<"q">>, <<"r">> >>

InputSchemas ==
    { ZodObject(<< Field("p", field), Field("q", Zod("string")) >>, NoSchema) :
          field \in InputFieldSchemas }
        \cup { InvalidSchema }

OutputKeys ==
    { <<"a">>, <<"a", ".", "b">>, <<"a", "[", "0", "]">>, <<"a", ".", "0">>,
      <<"z">>, <<>> }

(* a step id no step of the plan has *)
GhostStep == "s5"

References ==
    { DependencyReference("s0", key) : key \in OutputKeys }
        \cup { DependencyReference(GhostStep, <<"a">>) }

Templates ==
    { StringTemplateReference(<<"{", "0", "}">>, << ref >>) :
          ref \in { DependencyReference("s0", <<"a">>),
                    DependencyReference("s0", <<"a", "[", "0", "]">>),
                    DependencyReference("s0", <<"z">>),
                    DependencyReference(GhostStep, <<"a">>) } }
        \cup { StringTemplateReference(
                   <<"{", "0", "}", "{", "1", "}">>,
                   << DependencyReference("s0", <<"a", ".", "b">>),
                      DependencyReference("s0", <<"z">>) >>) }

(* the value of the first argument of s1 *)
FirstValues ==
    References \cup Templates
        \cup { Arr(<< DependencyReference("s0", <<"a">>) >>),
               Arr(<< DependencyReference(GhostStep, <<"a">>) >>),
               Arr(<< Str(<<"x">>), DependencyReference("s0", <<"a", "[", "0", "]">>) >>),
               Obj(<< << <<"k">>,
                         StringTemplateReference(
                             <<"{", "0", "}">>,
                             << DependencyReference("s0", <<"z">>) >>) >> >>),
               Str(<<"x">>) }

(* the value of every further argument of s1 *)
FurtherValues ==
    { DependencyReference("s0", <<"a">>),
      DependencyReference(GhostStep, <<"a">>),
      Str(<<"x">>) }

ArgumentsUpTo(n) ==
    UNION { { Obj([k \in 1..len |-> << ArgumentKeys[k], values[k] >>]) :
                  values \in { v \in [1..len -> FirstValues \cup FurtherValues] :
                                   \A k \in 2..len : v[k] \in FurtherValues } } :
            len \in 0..n }

(* the catalogs: both tools, the source tool missing, the consumer        *)
(* missing, and both tools with a tool no step uses whose output schema    *)
(* does not parse                                                          *)
SchemaCatalogs(output, input) ==
    LET A == SchemaTool("A", ZodObject(<<>>, NoSchema), output)
        B == SchemaTool("B", input, ZodObject(<<>>, NoSchema))
        C == SchemaTool("C", ZodObject(<<>>, NoSchema), InvalidSchema)
    IN { << A, B >>, << B >>, << A >>, << A, B, C >> }

ValidatorInit ==
    /\ ExecutorIdle
    /\ \E output \in OutputSchemas, input \in InputSchemas,
          arguments \in ArgumentsUpTo(MaxArguments) :
          \E catalog \in SchemaCatalogs(output, input) :
             arg = [steps |-> << PlanStep("s0", "A", Obj(<<>>)),
                                 PlanStep("s1", "B", arguments) >>,
                    tools |-> catalog]
    /\ ret = NotCalled

IsValidPlanCall ==
    /\ ret = NotCalled
    /\ ret' = Returned(isValidPlan(arg.steps, arg.tools))
    /\ UNCHANGED << arg, executorVars >>

ValidatorNext == IsValidPlanCall

ValidatorSpec == ValidatorInit /\ [][ValidatorNext]_vars

----------------------------------------------------------------------------
(* Vocabulary of the validator's properties.                               *)

Validated == ret.kind = "returned"

Range(seq) == { seq[k] : k \in 1..Len(seq) }

Has(error, field) == field \in DOMAIN error

(* the tools of the catalog under a name, and the steps under an id *)
CatalogTools(name) ==
    { arg.tools[t] : t \in { i \in 1..Len(arg.tools) : arg.tools[i].name = name } }

PlanSteps(id) ==
    { arg.steps[k] : k \in { i \in 1..Len(arg.steps) : arg.steps[i].stepId = id } }

Parsable(tool) == InvalidSchema \notin {tool.inputSchema, tool.outputSchema}

(* the steps whose references the validator walks *)
Checkable(step) ==
    /\ CatalogTools(step.toolName) # {}
    /\ \A tool \in CatalogTools(step.toolName) : Parsable(tool)

(* the errors reported for one argument path of one step *)
ErrorsAt(stepId, argumentPath) ==
    SelectSeq(ret.val.errors,
              LAMBDA e : /\ Has(e, "stepId") /\ e.stepId = stepId
                         /\ Has(e, "argumentPath")
                         /\ e.argumentPath = argumentPath)

(* those of them reported for one entry of $values *)
ErrorsOf(errors, entry) ==
    SelectSeq(errors,
              LAMBDA e : /\ Has(e, "fromStepId") /\ e.fromStepId = entry.fromStep
                         /\ Has(e, "outputPath") /\ e.outputPath = entry.outputKey)

Codes(errors) == [k \in 1..Len(errors) |-> errors[k].code]

(* every dependency reference of a step with the type expected of it *)
Uses(step, inputSchema) ==
    LET visits == ReferenceVisits(step.arguments, <<>>)
    IN UNION { IF isDependencyReference(visits[k].ref)
               THEN { [ref |-> visits[k].ref,
                       expected |-> getSchemaAtPath(inputSchema, visits[k].path)] }
               ELSE { [ref |-> visits[k].ref.values[j],
                       expected |-> stringCoercible] :
                          j \in 1..Len(visits[k].ref.values) } :
               k \in 1..Len(visits) }

(* the schema a reference points at, NoSchema when there is none *)
Referenced(ref) ==
    IF \E step \in PlanSteps(ref.fromStep) :
          \E tool \in CatalogTools(step.toolName) : Parsable(tool)
    THEN LET step == CHOOSE st \in PlanSteps(ref.fromStep) : TRUE
             tool == CHOOSE tl \in CatalogTools(step.toolName) : TRUE
         IN getSchemaAtPath(tool.outputSchema, parsePath(ref.outputKey))
    ELSE NoSchema

(* C12: when isValidPlan returns valid = true, every step's tool is in the *)
(* catalog, and every dependency reference of every step, the entries of   *)
(* the templates' $values included, names a step of the plan whose tool's  *)
(* output schema resolves the $outputKey path to a type assignable to the  *)
(* expected type                                                           *)
C12_ValidMeansWellReferenced ==
    (Validated /\ ret.val.valid) =>
        \A k \in 1..Len(arg.steps) :
            /\ Checkable(arg.steps[k])
            /\ \A tool \in CatalogTools(arg.steps[k].toolName) :
                  \A use \in Uses(arg.steps[k], tool.inputSchema) :
                     /\ PlanSteps(use.ref.fromStep) # {}
                     /\ use.expected # NoSchema
                     /\ Referenced(use.ref) # NoSchema
                     /\ isSchemaCompatible(use.expected, Referenced(use.ref))

(* a valid plan whose consumer step holds a template and a plain reference *)
C12_Witness ==
    /\ Validated /\ ret.val.valid
    /\ \E visit \in Range(ReferenceVisits(arg.steps[2].arguments, <<>>)) :
          isStringTemplateReference(visit.ref) /\ Len(visit.ref.values) > 0
    /\ \E visit \in Range(ReferenceVisits(arg.steps[2].arguments, <<>>)) :
          isDependencyReference(visit.ref)

(* C13: isValidPlan returns a result for every plan and catalog; every     *)
(* violation, an unparsable tool schema included, is in errors; an error   *)
(* does not stop the checking of the other references and steps; valid is  *)
(* true exactly when errors is empty                                       *)
C13_ErrorsCollected ==
    Validated =>
        /\ ret.val.valid \in BOOLEAN
        /\ ret.val.valid <=> (ret.val.errors = <<>>)
        /\ \A t \in 1..Len(arg.tools) :
              ~Parsable(arg.tools[t]) =>
                  \E e \in Range(ret.val.errors) :
                     /\ e.code = "schema_parse_error"
                     /\ ~Has(e, "stepId")
                     /\ e.toolName = arg.tools[t].name
        /\ \A k \in 1..Len(arg.steps) :
              LET step == arg.steps[k]
                  ofStep == SelectSeq(ret.val.errors,
                                      LAMBDA e : Has(e, "stepId")
                                                 /\ e.stepId = step.stepId)
              IN IF CatalogTools(step.toolName) = {}
                 THEN Codes(ofStep) = << "tool_not_found" >>
                 ELSE IF ~Checkable(step)
                 THEN Codes(ofStep) = << "schema_parse_error" >>
                 ELSE \A visit \in Range(ReferenceVisits(step.arguments, <<>>)) :
                         ErrorsAt(step.stepId, formatPath(visit.path))
                           = VisitErrors(
                                 visit, step,
                                 ParseSchemas(arg.tools, Len(arg.tools))
                                     .schemasByTool[step.toolName],
                                 StepsById(arg.steps),
                                 ParseSchemas(arg.tools, Len(arg.tools))
                                     .schemasByTool)

(* an unparsable schema and two erroneous references of one step, all      *)
(* reported by one call                                                    *)
C13_Witness ==
    /\ Validated
    /\ ~ret.val.valid
    /\ \E i, j, k \in 1..Len(ret.val.errors) :
          /\ i < j /\ j < k
          /\ ~Has(ret.val.errors[i], "stepId")
          /\ Has(ret.val.errors[j], "stepId") /\ ret.val.errors[j].stepId = "s0"
          /\ Has(ret.val.errors[k], "stepId") /\ ret.val.errors[k].stepId = "s1"
    /\ \E i, j \in 1..Len(ret.val.errors) :
          /\ i < j
          /\ Has(ret.val.errors[i], "argumentPath")
          /\ Has(ret.val.errors[j], "argumentPath")
          /\ ret.val.errors[i].argumentPath # ret.val.errors[j].argumentPath

(* the templates the validator visits in a step, with their paths *)
TemplateVisits(step) ==
    { visit \in Range(ReferenceVisits(step.arguments, <<>>)) :
          isStringTemplateReference(visit.ref) }

(* a schema a plain string is assignable to *)
AcceptsString(schema) == getTypeSet(schema) \cap {"string", "any"} # {}

StringCoercibleTypes == {"string", "number", "boolean", "object", "array"}

(* the errors of one entry of $values say what is wrong with it, and an    *)
(* entry whose output is typed within the string-coercible set has none    *)
EntryChecked(entry, errors) ==
    LET codes == Codes(ErrorsOf(errors, entry))
    IN IF PlanSteps(entry.fromStep) = {}
       THEN codes = << "dependency_step_missing" >>
       ELSE IF \E step \in PlanSteps(entry.fromStep) : ~Checkable(step)
       THEN codes = << "schema_parse_error" >>
       ELSE IF Referenced(entry) = NoSchema
       THEN codes = << "output_key_missing" >>
       ELSE /\ getTypeSet(Referenced(entry)) \subseteq StringCoercibleTypes
                  => codes = <<>>
            /\ getTypeSet(Referenced(entry)) = {"null"}
                  => codes = << "type_mismatch" >>

(* C14: for a template at argument path P whose expected type does not     *)
(* accept a string, one type_mismatch with actualType "string" is reported *)
(* and every entry of $values is still checked; each entry is checked      *)
(* against the string-coercible set, so an output typed string, number,    *)
(* boolean, object or array is accepted; if P is absent from the input     *)
(* schema, one input_key_missing is reported and no entry is checked       *)
C14_TemplateChecked ==
    Validated =>
        \A k \in 1..Len(arg.steps) :
            Checkable(arg.steps[k]) =>
                \A tool \in CatalogTools(arg.steps[k].toolName) :
                    \A visit \in TemplateVisits(arg.steps[k]) :
                        LET expected == getSchemaAtPath(tool.inputSchema, visit.path)
                            at == ErrorsAt(arg.steps[k].stepId, formatPath(visit.path))
                            own == SelectSeq(at, LAMBDA e : ~Has(e, "fromStepId"))
                        IN IF expected = NoSchema
                           THEN Codes(at) = << "input_key_missing" >>
                           ELSE /\ \A j \in 1..Len(visit.ref.values) :
                                      EntryChecked(visit.ref.values[j], at)
                                /\ IF AcceptsString(expected) THEN own = <<>>
                                   ELSE /\ Codes(own) = << "type_mismatch" >>
                                        /\ own[1].actualType = << "string" >>
                                        /\ own[1].expectedType
                                             = describeSchemaType(expected)

(* a template where a string is not accepted, one of whose entries names   *)
(* an output key the source tool does not have                             *)
C14_Witness ==
    /\ Validated
    /\ Checkable(arg.steps[2])
    /\ \E visit \in TemplateVisits(arg.steps[2]) :
          LET at == ErrorsAt("s1", formatPath(visit.path))
          IN /\ Len(visit.ref.values) = 2
             /\ Codes(at) = << "type_mismatch", "output_key_missing" >>
             /\ at[1].actualType = << "string" >>

(* every union node of a schema *)
RECURSIVE UnionNodes(_)
UnionNodes(schema) ==
    CASE schema.zod \in {"union", "xor"} ->
             {schema} \cup UNION { UnionNodes(schema.options[k]) :
                                       k \in 1..Len(schema.options) }
      [] schema.zod = "object" ->
             UNION { UnionNodes(schema.shape[k][2]) : k \in 1..Len(schema.shape) }
      [] schema.zod = "array" -> UnionNodes(schema.element)
      [] schema.zod = "tuple" ->
             UNION { UnionNodes(schema.items[k]) : k \in 1..Len(schema.items) }
      [] schema.zod \in {"optional", "nullable", "default"} ->
             UnionNodes(schema.innerType)
      [] OTHER -> {}

(* the remaining paths the union nodes are asked for *)
UnionPaths ==
    { << Str(<<"b">>) >>, << Str(<<"z">>) >>, << Num(0) >>,
      << Str(<<"b">>), Str(<<"c">>) >> }

(* C15: resolving a non-empty path at a union node (anyOf or oneOf)        *)
(* resolves it in every option on its own: the lookup fails exactly when   *)
(* no option resolves it, gives the one resolved schema when exactly one   *)
(* does, and the union of the resolved schemas otherwise; so a reference   *)
(* to a key that only one branch has is not reported as missing            *)
C15_UnionResolvesPerOption ==
    /\ \A t \in 1..Len(arg.tools) :
          Parsable(arg.tools[t]) =>
              \A node \in UnionNodes(arg.tools[t].outputSchema), path \in UnionPaths :
                  LET found == SelectSeq(
                                   [k \in 1..Len(node.options) |->
                                       getSchemaAtPath(node.options[k], path)],
                                   LAMBDA r : r # NoSchema)
                      result == getSchemaAtPath(node, path)
                  IN /\ (result = NoSchema) <=> (found = <<>>)
                     /\ Len(found) = 1 => result = found[1]
                     /\ Len(found) > 1 =>
                            /\ result.zod = "union"
                            /\ result.options = found
    /\ Validated =>
          \A k \in 1..Len(arg.steps) :
              Checkable(arg.steps[k]) =>
                  \A visit \in Range(ReferenceVisits(arg.steps[k].arguments, <<>>)) :
                      ( /\ isDependencyReference(visit.ref)
                        /\ Len(parsePath(visit.ref.outputKey)) > 1
                        /\ PlanSteps(visit.ref.fromStep) # {}
                        /\ \A step \in PlanSteps(visit.ref.fromStep) :
                              /\ Checkable(step)
                              /\ \A tool \in CatalogTools(step.toolName) :
                                    LET schema == getSchemaAtPath(
                                                      tool.outputSchema,
                                                      << Head(parsePath(visit.ref.outputKey)) >>)
                                    IN /\ schema.zod \in {"union", "xor"}
                                       /\ \E o \in 1..Len(schema.options) :
                                             getSchemaAtPath(
                                                 schema.options[o],
                                                 Tail(parsePath(visit.ref.outputKey)))
                                               # NoSchema )
                      => \A e \in Range(ErrorsOf(ret.val.errors, visit.ref)) :
                             e.code # "output_key_missing"

(* a valid plan whose reference a.b goes through anyOf(object, null), and  *)
(* where only the object has b                                             *)
C15_Witness ==
    /\ Validated /\ ret.val.valid
    /\ \E visit \in Range(ReferenceVisits(arg.steps[2].arguments, <<>>)) :
          /\ isDependencyReference(visit.ref)
          /\ visit.ref.outputKey = <<"a", ".", "b">>
          /\ \E tool \in CatalogTools("A") :
                LET schema == getSchemaAtPath(tool.outputSchema, << Str(<<"a">>) >>)
                IN /\ schema.zod = "union"
                   /\ Zod("null") \in Range(schema.options)

(* C16: an integer segment, or an all-digit string segment, resolves on a  *)
(* tuple as it does on an array, to the union of the prefix entries' types, *)
(* so a reference such as coords[0] into a tuple-typed output is not       *)
(* reported as output_key_missing                                          *)
C16_IndexIntoTupleResolves ==
    Validated =>
        \A k \in 1..Len(arg.steps) :
            Checkable(arg.steps[k]) =>
                \A visit \in Range(ReferenceVisits(arg.steps[k].arguments, <<>>)) :
                    ( /\ isDependencyReference(visit.ref)
                      /\ Len(parsePath(visit.ref.outputKey)) = 2
                      /\ PlanSteps(visit.ref.fromStep) # {}
                      /\ \A step \in PlanSteps(visit.ref.fromStep) :
                            /\ Checkable(step)
                            /\ \A tool \in CatalogTools(step.toolName) :
                                  /\ getSchemaAtPath(
                                         tool.outputSchema,
                                         << Head(parsePath(visit.ref.outputKey)) >>).zod
                                       = "tuple"
                                  /\ LET index == parsePath(visit.ref.outputKey)[2]
                                     IN \/ index.kind = "number"
                                        \/ /\ index.kind = "string"
                                           /\ isNumericString(index.val) )
                    => \A e \in Range(ErrorsOf(ret.val.errors, visit.ref)) :
                           e.code # "output_key_missing"

----------------------------------------------------------------------------
(* The dependency graph of a parsed plan.                                  *)

(* the step ids the step at position k of a returned plan refers to *)
EdgesFrom(plan, k) == SeqToSet(extractDependencyStepIds(plan[k].arguments))

(* the positions reached from the positions in found by at most n edges *)
RECURSIVE ReachedWithin(_, _, _)
ReachedWithin(plan, found, n) ==
    IF n = 0 THEN found
    ELSE ReachedWithin(
             plan,
             found \cup { j \in 1..Len(plan) :
                              \E k \in found : plan[j].stepId \in EdgesFrom(plan, k) },
             n - 1)

(* C21: the dependency graph of every plan parsePlanSteps returns, with an *)
(* edge from a step to each id in extractDependencyStepIds of its          *)
(* arguments, is acyclic: no step refers to itself and no chain of         *)
(* references returns to its start                                         *)
C21_ParsedPlanIsAcyclic ==
    ret.kind = "returned" =>
        \A k \in 1..Len(ret.val) :
            \A j \in 1..Len(ret.val) :
                ret.val[j].stepId \in EdgesFrom(ret.val, k) =>
                    k \notin ReachedWithin(ret.val, {j}, Len(ret.val))

----------------------------------------------------------------------------
(* executePlan called a second time with the same steps and tools.         *)

(* lines 619-624 of a second call, made once the first has returned: the   *)
(* maps and the results are created anew; arg keeps what the first call    *)
(* returned                                                                *)
ExecuteAgain ==
    /\ pc = "done"
    /\ arg = NotCalled
    /\ arg' = [kind |-> "again", first |-> results]
    /\ statusByStepId' = [id \in Ids |-> PlanStepStatus.Pending]
    /\ outputsByStepId' = <<>>
    /\ results' = <<>>
    /\ readySteps' = <<>>
    /\ launched' = 0
    /\ pc' = "ready"
    /\ resolvedArgs' = <<>>
    /\ handlerCalls' = [id \in Ids |-> 0]
    /\ waveOf' = [id \in Ids |-> 0]
    /\ wave' = 0
    /\ pushed' = <<>>
    /\ UNCHANGED <<ret, steps, tools>>

AgainNext == Next \/ ExecuteAgain

AgainSpec == Init /\ [][AgainNext]_vars

FirstFailure(ref, expected) ==
    IF expected = NoSchema THEN << "input_key_missing" >>
    ELSE IF PlanSteps(ref.fromStep) = {} THEN << "dependency_step_missing" >>
    ELSE IF \E step \in PlanSteps(ref.fromStep) : ~Checkable(step)
    THEN << "schema_parse_error" >>
    ELSE IF Referenced(ref) = NoSchema THEN << "output_key_missing" >>
    ELSE IF ~isSchemaCompatible(expected, Referenced(ref))
    THEN << "type_mismatch" >>
    ELSE <<>>

(* C23: for each dependency reference isValidPlan checks, at most one      *)
(* error is produced: that of the first failing check in the order         *)
(* input_key_missing, dependency_step_missing, schema_parse_error (the     *)
(* source step's tool has no parsed schemas), output_key_missing,          *)
(* type_mismatch; the later checks are not run for that reference          *)
C23_FirstFailingCheckOnly ==
    Validated =>
        \A k \in 1..Len(arg.steps) :
            Checkable(arg.steps[k]) =>
                \A tool \in CatalogTools(arg.steps[k].toolName) :
                    \A visit \in Range(ReferenceVisits(arg.steps[k].arguments, <<>>)) :
                        LET at == ErrorsAt(arg.steps[k].stepId, formatPath(visit.path))
                            expected == getSchemaAtPath(tool.inputSchema, visit.path)
                        IN IF isDependencyReference(visit.ref)
                           THEN Codes(at) = FirstFailure(visit.ref, expected)
                           ELSE expected # NoSchema =>
                                    \A j \in 1..Len(visit.ref.values) :
                                        Codes(ErrorsOf(at, visit.ref.values[j]))
                                          = FirstFailure(visit.ref.values[j],
                                                         stringCoercible)

(* a reference under an input path the schema lacks, to a step the plan    *)
(* lacks: two checks fail, one error is reported                           *)
C23_Witness ==
    /\ Validated
    /\ Checkable(arg.steps[2])
    /\ \E visit \in Range(ReferenceVisits(arg.steps[2].arguments, <<>>)) :
          /\ isDependencyReference(visit.ref)
          /\ PlanSteps(visit.ref.fromStep) = {}
          /\ Codes(ErrorsAt("s1", formatPath(visit.path))) = << "input_key_missing" >>

(* the errors isValidPlan reports for a tool of the catalog as such *)
ToolErrors(name) ==
    SelectSeq(ret.val.errors,
              LAMBDA e : ~Has(e, "stepId") /\ Has(e, "toolName")
                         /\ e.toolName = name)

(* the errors tagged with a step's id *)
StepErrorsOf(stepId) ==
    SelectSeq(ret.val.errors, LAMBDA e : Has(e, "stepId") /\ e.stepId = stepId)

(* C24: isValidPlan reports a schema_parse_error, and so valid = false,    *)
(* for every tool of the catalog whose input or output schema does not     *)
(* parse, whether or not a step of the plan uses the tool; a step that     *)
(* uses such a tool adds one more schema_parse_error tagged with its       *)
(* stepId, and none of its references is checked                           *)
C24_UnparsableToolsReported ==
    Validated =>
        /\ \A t \in 1..Len(arg.tools) :
              IF Parsable(arg.tools[t])
              THEN ToolErrors(arg.tools[t].name) = <<>>
              ELSE /\ ~ret.val.valid
                   /\ Codes(ToolErrors(arg.tools[t].name)) = << "schema_parse_error" >>
        /\ \A k \in 1..Len(arg.steps) :
              \A tool \in CatalogTools(arg.steps[k].toolName) :
                  ~Parsable(tool) =>
                      /\ Codes(StepErrorsOf(arg.steps[k].stepId))
                           = << "schema_parse_error" >>
                      /\ StepErrorsOf(arg.steps[k].stepId)[1].toolName = tool.name
                      /\ ~Has(StepErrorsOf(arg.steps[k].stepId)[1], "argumentPath")

(* a catalog with an unparsable tool that no step uses and an unparsable   *)
(* tool used by a step that holds a reference to a step not in the plan    *)
C24_Witness ==
    /\ Validated
    /\ \E t \in 1..Len(arg.tools) :
          /\ ~Parsable(arg.tools[t])
          /\ \A k \in 1..Len(arg.steps) : arg.steps[k].toolName # arg.tools[t].name
          /\ ToolErrors(arg.tools[t].name) # <<>>
    /\ \E tool \in CatalogTools("B") : ~Parsable(tool)
    /\ \E visit \in Range(ReferenceVisits(arg.steps[2].arguments, <<>>)) :
          isDependencyReference(visit.ref) /\ PlanSteps(visit.ref.fromStep) = {}
    /\ Len(StepErrorsOf("s1")) = 1

----------------------------------------------------------------------------
(* Termination of executePlan.                                             *)
(*                                                                         *)
(* The synchronous stretches of executePlan (getReadySteps, the calls map  *)
(* makes, the catch block, the final loop and the sort) run to completion  *)
(* once started: JavaScript never abandons a running function.  A handler  *)
(* promise settles only by the handler's doing; the fairness on the        *)
(* settlements is the proviso that every invoked handler eventually        *)
(* settles.                                                                *)

(* executePlan holds the thread, or is the continuation of a Promise.all   *)
(* whose promises have all settled                                         *)
Running ==
    \/ pc \in {"ready", "map", "call", "reap"}
    \/ pc = "await" /\ DOMAIN resolvedArgs = {}

(* the running function takes its next step.  Every step of ComputeReady,  *)
(* TryExecuteStepNoTool, TryExecuteStepResolveError, TryExecuteStepInvoke, *)
(* HandlerThrows and Finish starts in a Running state and moves pc or      *)
(* launched, the settlements of handlers start outside Running, and one of *)
(* the six is enabled in every Running state: within [Next]_vars the      *)
(* steps of Synchronous that move pc or launched are their disjunction,    *)
(* stated by its guard.                                                    *)
Synchronous ==
    /\ Running
    /\ pc' \in {"ready", "map", "call", "await", "reap", "done"}
    /\ launched' \in 0..Len(steps)

(* the promise of some invoked handler settles *)
Settles == \E id \in Ids : HandlerFulfilled(id) \/ HandlerRejected(id)

FairSpec == Spec /\ WF_<<pc, launched>>(Synchronous) /\ WF_vars(Settles)

(* the steps whose references lead to themselves or out of the plan *)
Unreachable(id) ==
    \/ Ancestors(id) \ Ids # {}
    \/ \E a \in Ancestors(id) \cup {id} : a \in Ancestors(a)

(* C25: executePlan returns for every finite plan, self-references,        *)
(* reference cycles and references to step ids not in the plan included,   *)
(* when every invoked handler eventually settles: a wave with a non-empty  *)
(* ready set leaves none of its steps pending, there are no more waves     *)
(* than steps, and a step that can never become ready is never dispatched  *)
(* and is reaped as skipped after the loop                                 *)
C25_ExecutePlanTerminates ==
    /\ <>(pc = "done")
    /\ [](pc = "map" => Len(readySteps) > 0 /\ wave <= Len(steps))
    /\ [](pc = "await" =>
             \A k \in 1..Len(readySteps) :
                 statusByStepId[readySteps[k].stepId] # PlanStepStatus.Pending)
    /\ [](\A id \in Ids : Unreachable(id) => waveOf[id] = 0 /\ handlerCalls[id] = 0)
    /\ [](pc = "done" =>
             \A id \in Ids :
                 waveOf[id] = 0 =>
                     /\ statusByStepId[id] = PlanStepStatus.Skipped
                     /\ \E k \in ResultsOf(id) :
                            /\ Has(results[k], "error")
                            /\ results[k].error = SkippedDependencies)

(* a returned execution of a plan with a reference cycle between two       *)
(* steps, reaped as skipped, next to a step whose handler ran              *)
C25_Witness ==
    /\ pc = "done"
    /\ \E a, b \in Ids :
          /\ a # b /\ a \in Deps(b) /\ b \in Deps(a)
          /\ statusByStepId[a] = PlanStepStatus.Skipped
          /\ statusByStepId[b] = PlanStepStatus.Skipped
    /\ \E c \in Ids : handlerCalls[c] = 1 /\ statusByStepId[c] = PlanStepStatus.Done


(* C26: for a plan whose step ids are unique, executePlan returns exactly  *)
(* one StepResult for each step of the plan and calls the handler of a     *)
(* step at most once, in whatever order the handlers complete              *)
C26_OneResultPerStep ==
    /\ \A id \in Ids : handlerCalls[id] <= 1 /\ Cardinality(ResultsOf(id)) <= 1
    /\ \A k \in 1..Len(results) : results[k].stepId \in Ids
    /\ pc = "done" =>
          /\ Len(results) = Len(steps)
          /\ \A id \in Ids : Cardinality(ResultsOf(id)) = 1

(* a returned execution in which two handlers of one wave completed        *)
(* against the order of their steps, one handler failed and a step was     *)
(* skipped                                                                 *)
C26_Witness ==
    /\ pc = "done"
    /\ \E i, j \in 1..Len(pushed) :
          /\ i < j
          /\ stepOrder(pushed[i]) > stepOrder(pushed[j])
          /\ waveOf[pushed[i]] = waveOf[pushed[j]]
          /\ handlerCalls[pushed[i]] = 1 /\ handlerCalls[pushed[j]] = 1
    /\ \E id \in Ids : statusByStepId[id] = PlanStepStatus.Failed
    /\ \E id \in Ids : statusByStepId[id] = PlanStepStatus.Skipped


(* C27: when executePlan returns, the status of every step is done, failed *)
(* or skipped; a result has no error field exactly when the status of its  *)
(* step is done; every result with an error has output null                *)
C27_FinalStatusMatchesResult ==
    pc = "done" =>
        /\ \A id \in Ids :
              /\ statusByStepId[id] \in {PlanStepStatus.Done, PlanStepStatus.Failed,
                                         PlanStepStatus.Skipped}
              /\ ResultsOf(id) # {}
        /\ \A k \in 1..Len(results) :
              /\ ~Has(results[k], "error")
                   <=> statusByStepId[results[k].stepId] = PlanStepStatus.Done
              /\ Has(results[k], "error") => results[k].output = Null

(* a returned execution with a step done, a step whose handler failed, a   *)
(* step skipped in a wave and a step skipped after the loop                *)
C27_Witness ==
    /\ pc = "done"
    /\ \E a, b, c \in Ids :
          /\ statusByStepId[a] = PlanStepStatus.Done
          /\ statusByStepId[b] = PlanStepStatus.Failed
          /\ statusByStepId[c] = PlanStepStatus.Skipped /\ waveOf[c] = 0
    /\ \E k \in 1..Len(results) :
          /\ ~Has(results[k], "error")
          /\ results[k].output # Null


----------------------------------------------------------------------------
(* The outputs resolveArguments reads.                                     *)

(* the keys resolveValue passes to outputsByStepId.get, in order: lines    *)
(* 745-747 and 778-782 descend, line 750 reads for a dependency reference, *)
(* line 763 for each entry of $values; an error thrown by a child ends the *)
(* walk                                                                    *)
RECURSIVE LookedUp(_, _)
RECURSIVE LookedUpAll(_, _)
LookedUp(value, outputs) ==
    IF value.kind = "array" THEN LookedUpAll(value.items, outputs)
    ELSE IF isDependencyReference(value) THEN << value.fromStep >>
    ELSE IF isStringTemplateReference(value)
    THEN [k \in 1..Len(value.values) |-> value.values[k].fromStep]
    ELSE IF value.kind = "object"
    THEN LookedUpAll([k \in 1..Len(value.fields) |-> value.fields[k][2]], outputs)
    ELSE <<>>

LookedUpAll(items, outputs) ==
    IF items = <<>> THEN <<>>
    ELSE LookedUp(Head(items), outputs)
             \o (IF resolveValue(Head(items), outputs).kind = "throw" THEN <<>>
                 ELSE LookedUpAll(Tail(items), outputs))

(* the step map is about to call, in a wave of executePlan *)
Dispatching == pc = "map" /\ NextStep.toolName \in DOMAIN toolsByName

----------------------------------------------------------------------------
(* isValidPlan, then executePlan on the same plan and catalog.              *)

(* the schemas of every tool: the input takes the strings i and v, the     *)
(* output is what HandlerValue builds, the string r and the object a       *)
ToolInputSchema ==
    ZodObject(<< Field("i", Zod("string")), Field("v", Zod("string")) >>, NoSchema)

ToolOutputSchema ==
    ZodObject(<< Field("r", Zod("string")),
                 Field("a", ZodObject(<<>>, NoSchema)) >>, NoSchema)

(* options.tools as the list isValidPlan is given, in the order of         *)
(* ToolNames                                                               *)
RECURSIVE ToolList(_, _)
ToolList(catalog, n) ==
    IF n = 0 THEN <<>>
    ELSE ToolList(catalog, n - 1)
             \o (IF ToolNames[n] \in DOMAIN catalog
                 THEN << SchemaTool(ToolNames[n], ToolInputSchema, ToolOutputSchema) >>
                 ELSE <<>>)

CheckedInit ==
    /\ steps \in Plans
    /\ tools \in Catalogs(steps)
    /\ statusByStepId = [id \in Ids |-> PlanStepStatus.Pending]
    /\ outputsByStepId = <<>>
    /\ results = <<>>
    /\ readySteps = <<>>
    /\ launched = 0
    /\ pc = "ready"
    /\ resolvedArgs = <<>>
    /\ handlerCalls = [id \in Ids |-> 0]
    /\ waveOf = [id \in Ids |-> 0]
    /\ wave = 0
    /\ pushed = <<>>
    /\ arg = [steps |-> steps, tools |-> ToolList(tools, Len(ToolNames))]
    /\ ret = NotCalled

CheckedNext ==
    \/ IsValidPlanCall
    \/ Validated /\ Next

CheckedSpec == CheckedInit /\ [][CheckedNext]_vars

EveryHandlerSucceeds == \A t \in DOMAIN tools : tools[t].handler = "ok"

(* C29: when isValidPlan returned valid = true for the plan and the        *)
(* catalog and every handler resolves with a value, executePlan runs every *)
(* step of the plan to done and skips none                                 *)
C29_ValidPlanRunsToDone ==
    (Validated /\ ret.val.valid /\ EveryHandlerSucceeds /\ pc = "done") =>
        \A id \in Ids : statusByStepId[id] = PlanStepStatus.Done


----------------------------------------------------------------------------
(* parseTemplateString followed by resolveValue.                           *)

(* the output of each step: its own letter under a *)
CompileOutputs ==
    [id \in {"s0", "s1", "s2"} |->
        Obj(<< << <<"a">>, Str(<< CASE id = "s0" -> "u"
                                    [] id = "s1" -> "v"
                                    [] id = "s2" -> "w" >>) >> >>)]

CompileInit ==
    /\ ExecutorIdle
    /\ \E tpl \in ParseStrings, stepIdByIndex \in StepIdMaps :
          arg = [tpl |-> tpl, stepIdByIndex |-> stepIdByIndex,
                 outputsByStepId |-> CompileOutputs]
    /\ ret = NotCalled

CompileAndResolveCall ==
    /\ ret = NotCalled
    /\ ret' = Returned(resolveValue(parseTemplateString(arg.tpl, arg.stepIdByIndex),
                                    arg.outputsByStepId))
    /\ UNCHANGED <<arg, executorVars>>

CompileNext == CompileAndResolveCall

CompileSpec == CompileInit /\ [][CompileNext]_vars

(* String(...) of what the j-th placeholder refers to *)
Substitute(j) ==
    JsString(getNestedValue(MapGet(arg.outputsByStepId, ValueOf(j).fromStep),
                            parsePath(ValueOf(j).outputKey)))

(* the original string with each bound placeholder replaced where it       *)
(* stands and everything else kept                                         *)
SubstitutedInPlace ==
    IF Placeholders = <<>> THEN arg.tpl
    ELSE Concat([j \in 1..Len(Placeholders) |->
                    TextBefore(j) \o (IF IsBound(j) THEN Substitute(j)
                                      ELSE Placeholders[j].full)])
             \o TextAfterLast

(* C30: resolving what parseTemplateString made of a string puts the value *)
(* of $values[k] exactly where the k-th bound placeholder of the string    *)
(* stood, and leaves the placeholders whose index is not in the id map,    *)
(* like all other text, as they were                                       *)
C30_CompiledTemplateSubstitutesInPlace ==
    ret.kind = "returned" => ret.val = Str(SubstitutedInPlace)

====
